---- MODULE Spec2Model ----
(***************************************************************************)
(* A model of the YoLink Local coordinator                                 *)
(* (custom_components/yolocal/coordinator.py): the device registry, the    *)
(* state store and the merge that _on_device_event performs for every      *)
(* device event handed to it; with it the MQTT client that delivers the    *)
(* events (api/mqtt.py), the startup sequence of create_coordinator, the   *)
(* device descriptors (api/device.py) and the payload normalizer of the    *)
(* tooling (yolink_tooling_common.py), each under a specification of its   *)
(* own over the same variables.                                            *)
(*                                                                         *)
(* Python values are modelled as a tagged union so that the isinstance     *)
(* tests and the None tests of the code can be translated as they are      *)
(* written: None, a scalar (str / int / bool, kept as a string) or a dict  *)
(* (a function from a finite set of keys to values).                       *)
(***************************************************************************)
EXTENDS Integers, FiniteSets, Sequences, TLC

\* ------------------------------------------------------------------------
\* Python values
\* ------------------------------------------------------------------------

EmptyDict == [k \in {} |-> 0]

None == [kind |-> "none", val |-> "", items |-> EmptyDict]

Scalar(x) == [kind |-> "scalar", val |-> x, items |-> EmptyDict]

Dict(m) == [kind |-> "dict", val |-> "", items |-> m]

\* isinstance(v, dict)
IsDict(v) == v.kind = "dict"

\* d.get(key): None when the key is absent
Get(d, key) == IF key \in DOMAIN d THEN d[key] ELSE None

\* {**a, **b}, and a.update(b) on a fresh copy of a: every key of b has b's value
Overlay(a, b) ==
  [k \in (DOMAIN a) \cup (DOMAIN b) |-> IF k \in DOMAIN b THEN b[k] ELSE a[k]]

\* The one-entry dict {key: value}
Single(key, value) == [k \in {key} |-> value]

\* The restriction of dict d to the keys in S
Restrict(d, S) == [k \in (DOMAIN d) \cap S |-> d[k]]

\* ------------------------------------------------------------------------
\* The merge of _on_device_event
\* ------------------------------------------------------------------------

\* The top-level keys the THSensor branch does not fold into the nested state
UnfoldedKeys == {"state", "online", "reportAt"}

\* The keys whose null value the THSensor branch treats as "not reported"
NullSkipKeys == {"temperature", "humidity", "mode", "version"}

\* The loop without its test for a null value
FoldedKeysWithNull(event_data) ==
  {key \in DOMAIN event_data : key \notin UnfoldedKeys}

\* The keys of event_data the THSensor loop copies into merged_state_obj
FoldedKeys(event_data) ==
  {key \in DOMAIN event_data :
     /\ key \notin UnfoldedKeys
     /\ ~(event_data[key] = None /\ key \in NullSkipKeys)}

\* new_state without the existing snapshot: the event's data replaces it
NewStateEventOnly(existing_state, event_data) == event_data

\* new_state = {**existing_state, **event_data}
NewState(existing_state, event_data) == Overlay(existing_state, event_data)

\* merged_state_obj that does not start from existing's nested state mapping
NestedStateObjFromEventOnly(existing_state, event_data) ==
  LET event_state_obj == Get(event_data, "state")
  IN  IF IsDict(event_state_obj)
        THEN event_state_obj.items
        ELSE IF event_state_obj # None
               THEN Single("state", event_state_obj)
               ELSE EmptyDict

\* merged_state_obj.update(existing_state) in place of existing_state["state"]
NestedStateObjFromSnapshot(existing_state, event_data) ==
  LET fromExisting ==
        IF IsDict(Get(existing_state, "state"))
          THEN existing_state
          ELSE EmptyDict
      event_state_obj == Get(event_data, "state")
  IN  IF IsDict(event_state_obj)
        THEN Overlay(fromExisting, event_state_obj.items)
        ELSE IF event_state_obj # None
               THEN Overlay(fromExisting, Single("state", event_state_obj))
               ELSE fromExisting

\* merged_state_obj before the loop over event_data: existing's nested state
\* mapping, then the event's nested state mapping or scalar state
NestedStateObj(existing_state, event_data) ==
  LET fromExisting ==
        IF IsDict(Get(existing_state, "state"))
          THEN existing_state["state"].items
          ELSE EmptyDict
      event_state_obj == Get(event_data, "state")
  IN  IF IsDict(event_state_obj)
        THEN Overlay(fromExisting, event_state_obj.items)
        ELSE IF event_state_obj # None
               THEN Overlay(fromExisting, Single("state", event_state_obj))
               ELSE fromExisting

\* merged_state_obj of the THSensor branch, after the loop that folds the flat keys
MergedStateObj(existing_state, event_data) ==
  Overlay(NestedStateObj(existing_state, event_data),
          Restrict(event_data, FoldedKeys(event_data)))

\* The THSensor branch with the folded keys removed from the top level of
\* new_state
MergeTHSensorPopping(existing_state, data) ==
  LET event_data == IF IsDict(data) THEN data.items ELSE EmptyDict
      new_state == NewState(existing_state, event_data)
      merged_state_obj == MergedStateObj(existing_state, event_data)
      kept == Restrict(new_state, (DOMAIN new_state) \ FoldedKeys(event_data))
  IN  IF DOMAIN merged_state_obj # {}
        THEN Overlay(kept, Single("state", Dict(merged_state_obj)))
        ELSE kept

\* The THSensor branch: the new snapshot for an event whose data is `data`
\* (any value: a non-dict data is replaced by the empty dict)
MergeTHSensor(existing_state, data) ==
  LET event_data == IF IsDict(data) THEN data.items ELSE EmptyDict
      new_state == NewState(existing_state, event_data)
      merged_state_obj == MergedStateObj(existing_state, event_data)
  IN  IF DOMAIN merged_state_obj # {}
        THEN Overlay(new_state, Single("state", Dict(merged_state_obj)))
        ELSE new_state

\* The both-mappings case merged the wrong way round: existing wins per field
GeneralStateObjExistingWins(existing_state_obj, event_state_obj) ==
  IF IsDict(existing_state_obj) /\ IsDict(event_state_obj)
    THEN Dict(Overlay(event_state_obj.items, existing_state_obj.items))
    ELSE IF IsDict(event_state_obj)
      THEN event_state_obj
      ELSE IF IsDict(existing_state_obj)
        THEN Dict(Overlay(existing_state_obj.items,
                          Single("state", event_state_obj)))
        ELSE event_state_obj

\* An incoming mapping that keeps the existing scalar as its `state` sub-field
GeneralStateObjKeepsScalar(existing_state_obj, event_state_obj) ==
  IF IsDict(existing_state_obj) /\ IsDict(event_state_obj)
    THEN Dict(Overlay(existing_state_obj.items, event_state_obj.items))
    ELSE IF IsDict(event_state_obj)
      THEN Dict(Overlay(Single("state", existing_state_obj),
                        event_state_obj.items))
      ELSE IF IsDict(existing_state_obj)
        THEN Dict(Overlay(existing_state_obj.items,
                          Single("state", event_state_obj)))
        ELSE event_state_obj

\* An incoming scalar that replaces the existing mapping (the third case dropped)
GeneralStateObjScalarReplaces(existing_state_obj, event_state_obj) ==
  IF IsDict(existing_state_obj) /\ IsDict(event_state_obj)
    THEN Dict(Overlay(existing_state_obj.items, event_state_obj.items))
    ELSE event_state_obj

\* The general branch's new_state["state"] when existing_state and event.data
\* both have a "state" key
GeneralStateObj(existing_state_obj, event_state_obj) ==
  IF IsDict(existing_state_obj) /\ IsDict(event_state_obj)
    THEN Dict(Overlay(existing_state_obj.items, event_state_obj.items))
    ELSE IF IsDict(event_state_obj)
      THEN event_state_obj
      ELSE IF IsDict(existing_state_obj)
        THEN Dict(Overlay(existing_state_obj.items,
                          Single("state", event_state_obj)))
        ELSE event_state_obj

\* The general branch, for a dict event.data with items `event_data`
MergeGeneral(existing_state, event_data) ==
  LET new_state == NewState(existing_state, event_data)
  IN  IF "state" \in DOMAIN existing_state /\ "state" \in DOMAIN event_data
        THEN Overlay(new_state,
               Single("state",
                 GeneralStateObj(existing_state["state"], event_data["state"])))
        ELSE new_state

\* {**existing_state, **event.data} raises TypeError unless event.data is a mapping
GeneralRaises(data) == ~IsDict(data)

\* merge_state(existing_state, event_data) of the tooling
MergeState(existing_state, event_data) ==
  LET new_state == Overlay(existing_state, event_data)
      existing_state_obj == Get(existing_state, "state")
      event_state_obj == Get(event_data, "state")
      folded == (DOMAIN event_data) \ UnfoldedKeys
      updated ==
        IF IsDict(event_state_obj)
          THEN Overlay(existing_state_obj.items, event_state_obj.items)
          ELSE IF event_state_obj # None
                 THEN Overlay(existing_state_obj.items,
                              Single("state", event_state_obj))
                 ELSE existing_state_obj.items
  IN  IF IsDict(existing_state_obj)
        THEN Overlay(Restrict(new_state, (DOMAIN new_state) \ folded),
               Single("state",
                 Dict(Overlay(updated, Restrict(event_data, folded)))))
        ELSE IF IsDict(event_state_obj)
               THEN Overlay(new_state, Single("state", event_state_obj))
               ELSE new_state

\* The snapshot _on_device_event stores for a device of type device_type
Merge(device_type, existing_state, data) ==
  IF device_type = "THSensor"
    THEN MergeTHSensor(existing_state, data)
    ELSE MergeGeneral(existing_state, data.items)


\* ------------------------------------------------------------------------
\* The inputs: discovered devices, fetched states, event data
\* ------------------------------------------------------------------------

\* The number of events _on_device_event handles in a run of the model
MaxEvents == 2

\* A marker for "this key is not in the dict", used only to enumerate dicts
Absent == [kind |-> "absent", val |-> "", items |-> EmptyDict]

\* The dict that holds f's keys whose value is not Absent
MakeDict(f) == Restrict(f, {k \in DOMAIN f : f[k] # Absent})

\* Every dict that gives each key of `options` one of its options
DictsOver(options) ==
  LET all == UNION {options[k] : k \in DOMAIN options}
  IN  {MakeDict(f) : f \in {g \in [DOMAIN options -> all] :
                              \A k \in DOMAIN options : g[k] \in options[k]}}

\* The nested `state` mappings an event may carry
EventNestedStates ==
  DictsOver([temperature |-> {Absent, None, Scalar("22")}])

\* The data an event may carry: a mapping with any of the keys state (null, a
\* scalar or a mapping), online and temperature (null or a value), or no mapping
EventData ==
  {Dict(m) : m \in DictsOver(
     [state |-> {Absent, None, Scalar("open")}
                  \cup {Dict(n) : n \in EventNestedStates},
      online |-> {Absent, Scalar("true")},
      temperature |-> {Absent, None, Scalar("21")}])}
  \cup {None}

\* The devices get_devices() returns: device_id -> device_type
DiscoveredDevices == [th1 |-> "THSensor", door1 |-> "DoorSensor"]

\* The device ids an event may name: the discovered ones and the default ""
EventDeviceIds == (DOMAIN DiscoveredDevices) \cup {""}

\* The states get_state(device) may return for a device of the given type
FetchedStates(device_type) ==
  IF device_type = "THSensor"
    THEN {[online |-> Scalar("true"),
           state |-> Dict([temperature |-> Scalar("20"),
                           version |-> Scalar("1.2")])]}
    ELSE {[online |-> Scalar("false"), state |-> Scalar("closed")],
          [state |-> Dict([battery |-> Scalar("3"),
                           temperature |-> Scalar("19")])]}

\* ------------------------------------------------------------------------
\* The coordinator
\* ------------------------------------------------------------------------

VARIABLES
  phase,             \* "constructed", then "running" once _async_setup is done
  devices,           \* self._devices: device_id -> device_type
  states,            \* self._states: device_id -> snapshot
  coordinator_data,  \* the payload of the last async_set_updated_data call
  event,             \* the last event _on_device_event was called with
  outcome,           \* how that call ended: "ignored", "raised" or "applied"
  updates,           \* the async_set_updated_data calls that call made
  before,            \* self._states as it was when that call began
  repeated,          \* whether that call's event equals the one before it
  handled,           \* the number of _on_device_event calls so far
  heap,              \* the dict objects created so far: reference -> contents
  hstates,           \* self._states by object: device_id -> reference
  hdata,             \* the payload of the last async_set_updated_data call,
                     \* by object: device_id -> reference
  hbefore,           \* the heap as it was when the last call began
  hinputs,           \* the references that call was given: the snapshot
                     \* self._states held and event.data (0: not a dict)
  client,            \* YoLinkMQTTClient._client: "none", or "started" once
                     \* connect() has called loop_start()
  loop_set,          \* whether YoLinkMQTTClient._loop is set
  callbacks,         \* YoLinkMQTTClient._callbacks: the observers, in order
  connected,         \* YoLinkMQTTClient._connected (an asyncio.Event)
  broker,            \* the network thread: "idle", "connecting", "subscribed"
                     \* (on_connect has subscribed the topic) or "dead"
  connect_call,      \* connect(): "none", "waiting", "returned", "timed_out"
  ready,             \* the calls call_soon_threadsafe has scheduled on the
                     \* event loop and the loop has not run yet, in order
  raw_log,           \* the messages _on_message has been called with
  delivered,         \* observer -> the events it has been invoked with
  subscribed_at,     \* observer -> Len(raw_log) when it subscribed
  initial_states,    \* self._states as _async_setup left it
  written,           \* the dict object a consumer of the coordinator has
                     \* written to (0: none)
  setup_pc,          \* create_coordinator: the await it is at, "idle" before
                     \* the call, "returned" or "failed" after it
  session,           \* the aiohttp session: "none", "open" or "closed"
  thrown,            \* the exception an await of create_coordinator raised,
                     \* and the step that raised it
  raised,            \* the exception create_coordinator raised to its caller
  fetch_result,      \* device id -> what get_state did for it in _async_setup
  record,            \* a discovery record: its `type` and its `appEui`
  descriptor,        \* the Device that Device.from_api made of it
  tool_display_type, \* what normalize_display_type returned for it
  given_payload,     \* an MQTT payload given to normalize_event_payload
  normalized,        \* what normalize_event_payload returned for it
  device_event,      \* what DeviceEvent.from_payload returned for it
  sensor_in,         \* what an entity reads: the device's snapshot and the
                     \* coordinator's availability
  sensor_out,        \* what the entities' properties returned for it
  writer,            \* the execution context of the last _on_device_event
                     \* call: "loop", "network", or "none" before any call
  handles,           \* the unsubscribe functions subscribe has returned
  unsubscribed       \* what the last call of an unsubscribe function did

\* The coordinator with its snapshots as values
cvars == <<states, coordinator_data, before, repeated>>

\* The coordinator with its snapshots as objects
hvars == <<heap, hstates, hdata, hbefore, hinputs>>

\* The MQTT client, its network thread and the event loop's queue
mvars == <<client, loop_set, callbacks, connected, broker, connect_call, ready,
           raw_log, delivered, subscribed_at, initial_states>>

\* A consumer of the coordinator's data
kvars == <<written>>

\* create_coordinator
svars == <<setup_pc, session, thrown, raised, fetch_result>>

\* Device.from_api and normalize_display_type on one discovery record
dvars == <<record, descriptor, tool_display_type>>

\* normalize_event_payload and DeviceEvent.from_payload on one payload
nvars == <<given_payload, normalized, device_event>>

\* The sensor entities reading one snapshot
tvars == <<sensor_in, sensor_out>>

\* The subscriptions of the MQTT client and the context of its deliveries
lvars == <<writer, handles, unsubscribed>>

\* What only some of the specifications use
xvars == <<mvars, kvars, svars, dvars, nvars, tvars, lvars>>

\* What is neither the coordinator nor the MQTT client
nonClient == <<kvars, svars, dvars, nvars, tvars>>

\* What the MQTT client's steps leave alone, the coordinator aside
nonMqtt == <<nonClient, lvars>>

\* What a consumer's steps leave alone, the coordinator aside
nonConsumer == <<mvars, svars, dvars, nvars, tvars, lvars>>

\* What the steps of create_coordinator leave alone, the coordinator and the
\* MQTT client aside
nonSetup == <<kvars, dvars, nvars, tvars, lvars>>

vars == <<phase, devices, event, outcome, updates, handled, cvars, hvars, xvars>>

\* The observers that may subscribe to the MQTT client: the coordinator's
\* _on_device_event, one that raises on every event and one that records
Observers == {"coordinator", "failing", "recorder"}

\* The unsubscribe function a subscribe(callback) call returns: the callback
\* its lambda closes over, whether the caller kept it, and how many times it
\* has been called
Handle(callback, held) == [callback |-> callback, held |-> held, calls |-> 0]

\* No unsubscribe function has been called
NoUnsubscribe == [handle |-> 0, result |-> "none"]

\* YoLinkMQTTClient before _connect_mqtt creates it
MqttIdle ==
  /\ writer = "none"
  /\ handles = <<>>
  /\ unsubscribed = NoUnsubscribe
  /\ client = "none"
  /\ loop_set = FALSE
  /\ callbacks = <<>>
  /\ connected = FALSE
  /\ broker = "idle"
  /\ connect_call = "none"
  /\ ready = <<>>
  /\ raw_log = <<>>
  /\ delivered = [o \in Observers |-> <<>>]
  /\ subscribed_at = [o \in Observers |-> 0]
  /\ initial_states = EmptyDict

\* A Python str as the sequence of its characters, None, and a missing key
Str(chars) == [kind |-> "str", chars |-> chars]
NoStr == [kind |-> "none", chars |-> <<>>]
AbsentStr == [kind |-> "absent", chars |-> <<>>]

\* No discovery record has been given to Device.from_api
DeviceIdle ==
  /\ record = [type |-> "", appEui |-> AbsentStr]
  /\ descriptor = [made |-> FALSE, device_type |-> "", display_type |-> "",
                   model |-> NoStr]
  /\ tool_display_type = ""

\* normalize_event_payload has not been called
NotNormalized ==
  [done |-> FALSE, device_id |-> "", selected |-> EmptyDict,
   event_data |-> EmptyDict]

\* DeviceEvent.from_payload has not been called
NotDecoded == [done |-> FALSE, device_id |-> "", data |-> None]

\* No payload has been given to normalize_event_payload
NormalizerIdle ==
  /\ given_payload = EmptyDict
  /\ normalized = NotNormalized
  /\ device_event = NotDecoded

\* A number an entity reads or returns, and None
NumVal(n) == [kind |-> "num", n |-> n]
NoVal == [kind |-> "none", n |-> 0]

\* No snapshot has been read by an entity
SensorIdle ==
  /\ sensor_in = [case |-> "none"]
  /\ sensor_out = [read |-> {}, battery |-> NoVal, battery_level |-> NoVal,
                   limit |-> NoVal]

\* What only some of the specifications use, not in use
RestIdle ==
  /\ MqttIdle
  /\ written = 0
  /\ setup_pc = "idle"
  /\ session = "none"
  /\ thrown = [at |-> "", exc |-> "none"]
  /\ raised = "none"
  /\ fetch_result = EmptyDict

NoEvent == [device_id |-> "", data |-> None]

\* YoLocalCoordinator.__init__
CoordinatorInit ==
  /\ phase = "constructed"
  /\ devices = EmptyDict
  /\ states = EmptyDict
  /\ coordinator_data = EmptyDict
  /\ event = NoEvent
  /\ outcome = "none"
  /\ updates = 0
  /\ before = EmptyDict
  /\ repeated = FALSE
  /\ handled = 0
  /\ heap = <<>>
  /\ hstates = EmptyDict
  /\ hdata = EmptyDict
  /\ hbefore = <<>>
  /\ hinputs = [existing |-> 0, data |-> 0]
  /\ RestIdle

\* The coordinator as constructed; no discovery record and no payload given
\* to the functions that take one
Init ==
  /\ CoordinatorInit
  /\ DeviceIdle
  /\ NormalizerIdle
  /\ SensorIdle

\* _async_setup: the registry is filled from get_devices(), and every device
\* gets the state its fetch returned, or {} when the fetch raised; then
\* _connect_mqtt subscribes _on_device_event, so that events are handled from
\* here on ("running")
StatesFetched ==
  /\ phase = "constructed"
  /\ devices' = DiscoveredDevices
  /\ \E fetched \in [DOMAIN DiscoveredDevices ->
                       UNION {FetchedStates(DiscoveredDevices[d]) \cup {EmptyDict} :
                                d \in DOMAIN DiscoveredDevices}] :
       /\ \A d \in DOMAIN DiscoveredDevices :
            fetched[d] \in FetchedStates(DiscoveredDevices[d]) \cup {EmptyDict}
       /\ states' = fetched
  /\ phase' = "running"
  /\ UNCHANGED <<coordinator_data, event, outcome, updates, before, repeated,
                 handled, hvars>>

\* _async_setup(), the MQTT client it connects left aside
AsyncSetup ==
  /\ StatesFetched
  /\ UNCHANGED xvars

\* self._states.get(device_id, {})
StateOf(store, device_id) ==
  IF device_id \in DOMAIN store THEN store[device_id] ELSE EmptyDict


\* device = self._devices.get(device_id); its type, "" when device is None
TypeOf(device_id) ==
  IF device_id \in DOMAIN devices THEN devices[device_id] ELSE ""

\* _on_device_event without its early return for an unknown device
OutcomeWithoutRegistryCheck(device_id, data) ==
  IF TypeOf(device_id) # "THSensor" /\ GeneralRaises(data)
    THEN "raised"
    ELSE "applied"

\* How _on_device_event(event) ends: the early return for an unknown device,
\* the TypeError of the general branch, or the store assignment and the
\* notification
Outcome(device_id, data) ==
  IF device_id \notin DOMAIN devices
    THEN "ignored"
    ELSE IF TypeOf(device_id) # "THSensor" /\ GeneralRaises(data)
           THEN "raised"
           ELSE "applied"

\* self._states with the device's snapshot replaced by the event's data
StatesAfterReplacing(device_id, data) ==
  IF Outcome(device_id, data) = "applied"
    THEN Overlay(states,
           Single(device_id, IF IsDict(data) THEN data.items ELSE EmptyDict))
    ELSE states

\* self._states after _on_device_event(event)
StatesAfter(device_id, data) ==
  IF Outcome(device_id, data) = "applied"
    THEN Overlay(states,
           Single(device_id,
             Merge(TypeOf(device_id), StateOf(states, device_id), data)))
    ELSE states

\* The copy of self._states taken before the assignment to self._states[device_id]
UpdatedDataBeforeAssignment(device_id, data) == states

\* The payload of self.async_set_updated_data(self._states.copy())
UpdatedData(device_id, data) == StatesAfter(device_id, data)

\* The async_set_updated_data calls _on_device_event(event) makes
UpdateCalls(device_id, data) ==
  IF Outcome(device_id, data) = "applied" THEN 1 ELSE 0

\* The body of _on_device_event(event): what one call does to the coordinator
DeviceEventHandled(device_id, data) ==
  /\ event' = [device_id |-> device_id, data |-> data]
  /\ outcome' = Outcome(device_id, data)
  /\ states' = StatesAfter(device_id, data)
  /\ updates' = UpdateCalls(device_id, data)
  /\ coordinator_data' =
       IF UpdateCalls(device_id, data) > 0
         THEN UpdatedData(device_id, data)
         ELSE coordinator_data
  /\ before' = states
  /\ repeated' = (handled > 0 /\ event = [device_id |-> device_id, data |-> data])
  /\ handled' = handled + 1

\* _on_device_event(event), for an event the MQTT client hands over
OnDeviceEvent(device_id, data) ==
  /\ phase = "running"
  /\ handled < MaxEvents
  /\ DeviceEventHandled(device_id, data)
  /\ UNCHANGED <<phase, devices, hvars, xvars>>

Next ==
  \/ AsyncSetup
  \/ \E device_id \in EventDeviceIds, data \in EventData :
       OnDeviceEvent(device_id, data)

Spec == Init /\ [][Next]_vars

\* ------------------------------------------------------------------------
\* Properties of _on_device_event
\* ------------------------------------------------------------------------

\* _on_device_event has handled an event: `event`, `before`, `outcome` and
\* `updates` describe that call
Handled == handled > 0

\* The last event named a device of the registry
KnownDevice == event.device_id \in DOMAIN devices

\* The last event named a registered device that is not a THSensor and carried
\* a mapping: the general branch merged it
GeneralMerged ==
  /\ Handled
  /\ KnownDevice
  /\ TypeOf(event.device_id) # "THSensor"
  /\ IsDict(event.data)

\* The last event named a THSensor of the registry: the THSensor branch merged it
THSensorMerged ==
  /\ Handled
  /\ KnownDevice
  /\ TypeOf(event.device_id) = "THSensor"

\* The snapshot of the event's device before and after the call
Existing == StateOf(before, event.device_id)

Resulting == StateOf(states, event.device_id)

\* The event's data as the THSensor branch reads it
EventItems == IF IsDict(event.data) THEN event.data.items ELSE EmptyDict

\* C1: an event for a device id that is not in the registry leaves every
\* snapshot of the store unchanged and makes no async_set_updated_data call,
\* whatever its data is.
C1_UnknownDeviceIgnored ==
  (Handled /\ ~KnownDevice) => (states = before /\ updates = 0)

C1_Witness ==
  /\ Handled
  /\ ~KnownDevice
  /\ IsDict(event.data)
  /\ DOMAIN event.data.items = {"state", "online", "temperature"}
  /\ DOMAIN before = DOMAIN DiscoveredDevices

\* C2: an event for a registered device whose data is a mapping leaves the
\* store equal to the previous store with that device's entry replaced by the
\* merge result, every other snapshot unchanged, and makes exactly one
\* async_set_updated_data call, whose payload equals the store after the
\* replacement.
C2_EntryReplacedAndNotified ==
  (Handled /\ KnownDevice /\ IsDict(event.data)) =>
    /\ DOMAIN states = (DOMAIN before) \cup {event.device_id}
    /\ states[event.device_id] =
         Merge(TypeOf(event.device_id), Existing, event.data)
    /\ \A d \in (DOMAIN states) \ {event.device_id} :
         d \in DOMAIN before /\ states[d] = before[d]
    /\ updates = 1
    /\ coordinator_data = states

C2_Witness ==
  /\ Handled
  /\ KnownDevice
  /\ IsDict(event.data)
  /\ Resulting # Existing
  /\ \E d \in (DOMAIN states) \ {event.device_id} : DOMAIN states[d] # {}
  /\ updates = 1

\* C3: for a device that is not a THSensor, an event whose data has top-level
\* keys disjoint from the existing snapshot's yields the union of the two
\* mappings: every existing key keeps its value, every incoming key has the
\* incoming value, and there is no other key.
C3_DisjointKeysUnion ==
  (GeneralMerged /\ (DOMAIN Existing) \cap (DOMAIN event.data.items) = {}) =>
    /\ DOMAIN Resulting = (DOMAIN Existing) \cup (DOMAIN event.data.items)
    /\ \A k \in DOMAIN Existing : Resulting[k] = Existing[k]
    /\ \A k \in DOMAIN event.data.items : Resulting[k] = event.data.items[k]

C3_Witness ==
  /\ GeneralMerged
  /\ (DOMAIN Existing) \cap (DOMAIN event.data.items) = {}
  /\ DOMAIN Existing # {}
  /\ DOMAIN event.data.items # {}

\* C4: for a device that is not a THSensor, every top-level key of the incoming
\* data other than `state` has the incoming value in the result, and when the
\* existing and the incoming `state` are both mappings the resulting `state` is
\* the mapping in which every key of the incoming state has the incoming value
\* and every key only in the existing state keeps its value.
C4_LastWriteWins ==
  GeneralMerged =>
    /\ \A k \in (DOMAIN event.data.items) \ {"state"} :
         k \in DOMAIN Resulting /\ Resulting[k] = event.data.items[k]
    /\ (IsDict(Get(Existing, "state")) /\ IsDict(Get(event.data.items, "state"))) =>
         LET old == Existing["state"].items
             new == event.data.items["state"].items
         IN  /\ "state" \in DOMAIN Resulting
             /\ IsDict(Resulting["state"])
             /\ DOMAIN Resulting["state"].items = (DOMAIN old) \cup (DOMAIN new)
             /\ \A f \in DOMAIN new : Resulting["state"].items[f] = new[f]
             /\ \A f \in (DOMAIN old) \ (DOMAIN new) :
                  Resulting["state"].items[f] = old[f]

C4_Witness ==
  /\ GeneralMerged
  /\ IsDict(Get(Existing, "state"))
  /\ IsDict(Get(event.data.items, "state"))
  /\ \E f \in DOMAIN Existing["state"].items :
       /\ f \in DOMAIN event.data.items["state"].items
       /\ Existing["state"].items[f] # event.data.items["state"].items[f]
  /\ (DOMAIN Existing["state"].items) \ (DOMAIN event.data.items["state"].items) # {}
  /\ \E k \in (DOMAIN event.data.items) \ {"state"} :
       k \in DOMAIN Existing /\ Existing[k] # event.data.items[k]

\* C5: for a device that is not a THSensor, when the incoming `state` is a
\* mapping and the existing snapshot's `state` is present but not a mapping,
\* the resulting `state` equals the incoming mapping.
C5_MappingReplacesScalar ==
  (/\ GeneralMerged
   /\ "state" \in DOMAIN Existing
   /\ ~IsDict(Existing["state"])
   /\ IsDict(Get(event.data.items, "state"))) =>
    Resulting["state"] = event.data.items["state"]

C5_Witness ==
  /\ GeneralMerged
  /\ "state" \in DOMAIN Existing
  /\ Existing["state"] = Scalar("closed")
  /\ IsDict(Get(event.data.items, "state"))
  /\ DOMAIN event.data.items["state"].items # {}

\* C6: for a device that is not a THSensor, when the existing `state` is a
\* mapping and the incoming `state` is a scalar, the resulting `state` is the
\* existing mapping with its `state` sub-field set to the incoming scalar and
\* every other nested field kept.
C6_ScalarSetsSubField ==
  (/\ GeneralMerged
   /\ IsDict(Get(Existing, "state"))
   /\ "state" \in DOMAIN event.data.items
   /\ ~IsDict(event.data.items["state"])) =>
    /\ IsDict(Resulting["state"])
    /\ DOMAIN Resulting["state"].items =
         (DOMAIN Existing["state"].items) \cup {"state"}
    /\ Resulting["state"].items["state"] = event.data.items["state"]
    /\ \A f \in (DOMAIN Existing["state"].items) \ {"state"} :
         Resulting["state"].items[f] = Existing["state"].items[f]

C6_Witness ==
  /\ GeneralMerged
  /\ IsDict(Get(Existing, "state"))
  /\ (DOMAIN Existing["state"].items) \ {"state"} # {}
  /\ Get(event.data.items, "state") = Scalar("open")

\* The event's nested `state` mapping carries key k
EventNestedHas(k) ==
  /\ IsDict(Get(EventItems, "state"))
  /\ k \in DOMAIN EventItems["state"].items

\* The existing snapshot's nested `state` mapping holds a non-null value for k
ExistingNestedKnown(k) ==
  /\ IsDict(Get(Existing, "state"))
  /\ k \in DOMAIN Existing["state"].items
  /\ Existing["state"].items[k] # None

\* The resulting snapshot's nested `state` mapping holds value v for k
ResultingNestedIs(k, v) ==
  /\ IsDict(Get(Resulting, "state"))
  /\ k \in DOMAIN Resulting["state"].items
  /\ Resulting["state"].items[k] = v

\* C7 as stated: for a THSensor, an event whose top-level data carries null for
\* temperature, humidity, mode or version leaves the nested state.<key> at its
\* previously known value.
C7_NullLeavesNestedValue ==
  THSensorMerged =>
    \A k \in NullSkipKeys :
      (/\ k \in DOMAIN EventItems
       /\ EventItems[k] = None
       /\ ExistingNestedKnown(k)) =>
        ResultingNestedIs(k, Existing["state"].items[k])

\* C7, amended: for a THSensor, an event whose top-level data carries null for
\* temperature, humidity, mode or version leaves the nested state.<key> at its
\* previously known value unless the event's own nested `state` mapping
\* carries that key, and then the nested state.<key> has the value of the
\* event's nested mapping.
C7_NullSkippedUnlessNested ==
  THSensorMerged =>
    \A k \in NullSkipKeys :
      (/\ k \in DOMAIN EventItems
       /\ EventItems[k] = None
       /\ ExistingNestedKnown(k)) =>
        IF EventNestedHas(k)
          THEN ResultingNestedIs(k, EventItems["state"].items[k])
          ELSE ResultingNestedIs(k, Existing["state"].items[k])

C7_Witness ==
  /\ THSensorMerged
  /\ Get(EventItems, "temperature") = None
  /\ "temperature" \in DOMAIN EventItems
  /\ ~EventNestedHas("temperature")
  /\ ExistingNestedKnown("temperature")
  /\ ResultingNestedIs("temperature", Existing["state"].items["temperature"])
  /\ Resulting["temperature"] = None

\* C8: for a THSensor, every top-level key of the incoming data other than
\* state, online and reportAt that has a non-null value is in the resulting
\* nested `state` mapping with the incoming value, and every field of the
\* existing nested `state` mapping that the event does not mention (neither at
\* top level nor in its nested `state`) is kept with its value.
C8_FlatKeysFoldedNestedKept ==
  THSensorMerged =>
    /\ \A k \in (DOMAIN EventItems) \ UnfoldedKeys :
         EventItems[k] # None => ResultingNestedIs(k, EventItems[k])
    /\ IsDict(Get(Existing, "state")) =>
         \A f \in DOMAIN Existing["state"].items :
           (f \notin DOMAIN EventItems /\ ~EventNestedHas(f)) =>
             ResultingNestedIs(f, Existing["state"].items[f])

C8_Witness ==
  /\ THSensorMerged
  /\ Get(EventItems, "temperature") = Scalar("21")
  /\ EventNestedHas("temperature")
  /\ "online" \in DOMAIN EventItems
  /\ ExistingNestedKnown("version")
  /\ ResultingNestedIs("version", Scalar("1.2"))
  /\ ResultingNestedIs("temperature", Scalar("21"))

\* C9: applying the same event twice in a row leaves the device's snapshot
\* equal to the snapshot after applying it once, for a THSensor and for every
\* other device type.
C9_Idempotent ==
  (Handled /\ repeated /\ KnownDevice /\ IsDict(event.data)) =>
    Resulting = Existing

C9_Witness ==
  /\ repeated
  /\ THSensorMerged
  /\ Get(EventItems, "temperature") = Scalar("21")
  /\ Get(EventItems, "state") = Scalar("open")
  /\ Resulting \notin FetchedStates("THSensor") \cup {EmptyDict}
  /\ Resulting = Existing

\* ------------------------------------------------------------------------
\* The coordinator with its dicts as objects
\*
\* _on_device_event statement by statement on a heap of dict objects, to tell
\* a new dict from a dict that is shared or updated in place.  A dict object is
\* heap[r], a function from its keys to cells; a cell is None, a scalar or a
\* reference to another dict object.
\* ------------------------------------------------------------------------

HNone == [kind |-> "none", val |-> "", ref |-> 0]

HScalar(x) == [kind |-> "scalar", val |-> x, ref |-> 0]

HRef(r) == [kind |-> "ref", val |-> "", ref |-> r]

\* isinstance(c, dict)
IsRef(c) == c.kind = "ref"

\* d.get(key) for the contents d of a dict object
GetCell(d, key) == IF key \in DOMAIN d THEN d[key] ELSE HNone

\* The cell of a value that is not a dict
Cell(v) == IF v.kind = "none" THEN HNone ELSE HScalar(v.val)

\* The contents of a dict none of whose values is a dict
Cells(items) == [k \in DOMAIN items |-> Cell(items[k])]

\* A new dict object with the given contents: the heap with it, and its reference
NewDict(h, contents) == [heap |-> Append(h, contents), ref |-> Len(h) + 1]

\* The objects json.loads and get_state build for a dict with the given items,
\* whose `state` may be a dict of scalars: the nested dict, then the dict
AllocDict(h, items) ==
  IF IsDict(Get(items, "state"))
    THEN LET nested == NewDict(h, Cells(items["state"].items))
         IN  NewDict(nested.heap,
                     [k \in DOMAIN items |->
                        IF k = "state" THEN HRef(nested.ref) ELSE Cell(items[k])])
    ELSE NewDict(h, Cells(items))

\* The value a cell of heap h stands for
RECURSIVE ValueOf(_, _)
ValueOf(h, c) ==
  IF c.kind = "none" THEN None
  ELSE IF c.kind = "scalar" THEN Scalar(c.val)
  ELSE Dict([k \in DOMAIN h[c.ref] |-> ValueOf(h, h[c.ref][k])])

\* The items of dict object r of heap h, as a value
Deref(h, r) == ValueOf(h, HRef(r)).items

\* existing_state.update(event_data); new_state = existing_state
HeapNewStateInPlace(h, existing, event_data) ==
  [heap |-> [h EXCEPT ![existing] = Overlay(h[existing], h[event_data])],
   ref |-> existing]

\* new_state = {**existing_state, **event_data}: a new dict; the values, and so
\* the nested dict objects, are those of the two dicts
HeapNewState(h, existing, event_data) ==
  NewDict(h, Overlay(h[existing], h[event_data]))

\* The contents of merged_state_obj of the THSensor branch
HeapMergedStateObj(h, existing, event_data) ==
  LET existing_state_obj == GetCell(h[existing], "state")
      fromExisting ==
        IF IsRef(existing_state_obj) THEN h[existing_state_obj.ref] ELSE EmptyDict
      event_state_obj == GetCell(h[event_data], "state")
      withEvent ==
        IF IsRef(event_state_obj)
          THEN Overlay(fromExisting, h[event_state_obj.ref])
          ELSE IF event_state_obj # HNone
                 THEN Overlay(fromExisting, Single("state", event_state_obj))
                 ELSE fromExisting
      folded ==
        {key \in DOMAIN h[event_data] :
           /\ key \notin UnfoldedKeys
           /\ ~(h[event_data][key] = HNone /\ key \in NullSkipKeys)}
  IN  Overlay(withEvent, Restrict(h[event_data], folded))

\* The THSensor branch: the heap after it and the reference of new_state.
\* data is the reference of event.data, 0 when event.data is not a dict
HeapTHSensor(h, existing, data) ==
  LET event_data == IF data # 0 THEN [heap |-> h, ref |-> data]
                                ELSE NewDict(h, EmptyDict)
      new_state == HeapNewState(event_data.heap, existing, event_data.ref)
      merged_state_obj ==
        NewDict(new_state.heap,
                HeapMergedStateObj(new_state.heap, existing, event_data.ref))
  IN  IF DOMAIN merged_state_obj.heap[merged_state_obj.ref] # {}
        THEN [heap |-> [merged_state_obj.heap EXCEPT ![new_state.ref] =
                          Overlay(@, Single("state", HRef(merged_state_obj.ref)))],
              ref |-> new_state.ref]
        ELSE [heap |-> merged_state_obj.heap, ref |-> new_state.ref]

\* The general branch, for a dict event.data with reference data
HeapGeneral(h, existing, data) ==
  LET new_state == HeapNewState(h, existing, data)
      existing_state_obj == GetCell(h[existing], "state")
      event_state_obj == GetCell(h[data], "state")
      merged ==
        IF IsRef(existing_state_obj) /\ IsRef(event_state_obj)
          THEN Overlay(h[existing_state_obj.ref], h[event_state_obj.ref])
          ELSE Overlay(h[existing_state_obj.ref], Single("state", event_state_obj))
      state_obj == NewDict(new_state.heap, merged)
  IN  IF /\ "state" \in DOMAIN h[existing]
         /\ "state" \in DOMAIN h[data]
         /\ IsRef(existing_state_obj)
        THEN [heap |-> [state_obj.heap EXCEPT ![new_state.ref] =
                          Overlay(@, Single("state", HRef(state_obj.ref)))],
              ref |-> new_state.ref]
        ELSE new_state

\* The order in which _async_setup fetches the states of the devices
DeviceOrder == <<"th1", "door1">>

\* The loop of _async_setup over the devices `ids`: each device's fetched
\* state (or {}) becomes a new dict object that self._states refers to
RECURSIVE FetchAll(_, _, _, _)
FetchAll(h, store, ids, fetched) ==
  IF ids = <<>>
    THEN [heap |-> h, store |-> store]
    ELSE LET state == AllocDict(h, fetched[Head(ids)])
         IN  FetchAll(state.heap,
                      Overlay(store, Single(Head(ids), state.ref)),
                      Tail(ids), fetched)

\* The data of the events handled object by object: a mapping with any of the
\* keys state (a scalar, an empty or a non-empty mapping) and temperature, or
\* no mapping
HeapEventData ==
  {Dict(m) : m \in DictsOver(
     [state |-> {Absent, Scalar("open"), Dict(EmptyDict),
                 Dict([temperature |-> Scalar("22")])},
      temperature |-> {Absent, Scalar("21")}])}
  \cup {None}

\* _async_setup
HeapAsyncSetup ==
  /\ phase = "constructed"
  /\ devices' = DiscoveredDevices
  /\ \E fetched \in [DOMAIN DiscoveredDevices ->
                       UNION {FetchedStates(DiscoveredDevices[d]) \cup {EmptyDict} :
                                d \in DOMAIN DiscoveredDevices}] :
       /\ \A d \in DOMAIN DiscoveredDevices :
            fetched[d] \in FetchedStates(DiscoveredDevices[d]) \cup {EmptyDict}
       /\ LET all == FetchAll(heap, hstates, DeviceOrder, fetched)
          IN  /\ heap' = all.heap
              /\ hstates' = all.store
  /\ phase' = "running"
  /\ UNCHANGED <<event, outcome, updates, handled, cvars, hdata, hbefore, hinputs,
                 xvars>>

\* The heap and self._states after the statements of _on_device_event, for an
\* event whose data is the object `data` of heap h (0: not a dict) and whose
\* device is in the registry
HeapApplied(h, device_id, data) ==
  LET existing_state ==
        IF device_id \in DOMAIN hstates
          THEN [heap |-> h, ref |-> hstates[device_id]]
          ELSE NewDict(h, EmptyDict)
      new_state ==
        IF TypeOf(device_id) = "THSensor"
          THEN HeapTHSensor(existing_state.heap, existing_state.ref, data)
          ELSE HeapGeneral(existing_state.heap, existing_state.ref, data)
  IN  [heap |-> new_state.heap,
       store |-> Overlay(hstates, Single(device_id, new_state.ref)),
       existing |-> existing_state.ref]

\* _on_device_event(event), for an event whose data json.loads has just built
HeapOnDeviceEvent(device_id, data) ==
  /\ phase = "running"
  /\ handled < MaxEvents
  /\ LET parsed == IF IsDict(data) THEN AllocDict(heap, data.items)
                                   ELSE [heap |-> heap, ref |-> 0]
     IN  /\ hbefore' = parsed.heap
         /\ IF Outcome(device_id, data) = "applied"
              THEN LET done == HeapApplied(parsed.heap, device_id, parsed.ref)
                   IN  /\ heap' = done.heap
                       /\ hstates' = done.store
                       /\ hdata' = done.store
                       /\ hinputs' = [existing |-> done.existing,
                                      data |-> parsed.ref]
              ELSE /\ heap' = parsed.heap
                   /\ hstates' = hstates
                   /\ hdata' = hdata
                   /\ hinputs' = [existing |-> 0, data |-> parsed.ref]
  /\ event' = [device_id |-> device_id, data |-> data]
  /\ outcome' = Outcome(device_id, data)
  /\ updates' = UpdateCalls(device_id, data)
  /\ handled' = handled + 1
  /\ UNCHANGED <<phase, devices, cvars, xvars>>

HeapNext ==
  \/ HeapAsyncSetup
  \/ \E device_id \in EventDeviceIds, data \in HeapEventData :
       HeapOnDeviceEvent(device_id, data)

HeapSpec == Init /\ [][HeapNext]_vars

\* The objects handle the values the merge computes: after an applied event the
\* new snapshot object stands for Merge of the previous snapshot and the data
HeapAgreesWithMerge ==
  (Handled /\ outcome = "applied") =>
    Deref(heap, hstates[event.device_id]) =
      Merge(TypeOf(event.device_id), Deref(hbefore, hinputs.existing), event.data)

\* The nested `state` dict object of dict object r of heap h, if it has one
NestedOf(h, r) ==
  IF IsRef(GetCell(h[r], "state")) THEN {h[r]["state"].ref} ELSE {}

\* The objects the last merge was given: the previous snapshot and the event's
\* data mapping, each with its nested `state` mapping
InputObjects ==
  LET top == {hinputs.existing} \cup (IF hinputs.data # 0 THEN {hinputs.data} ELSE {})
  IN  top \cup UNION {NestedOf(hbefore, r) : r \in top}

\* C10: the merge of _on_device_event does not mutate its inputs: the dict that
\* was the device's previous snapshot, the event's data dict and the nested
\* `state` dict of each have the contents they had before the call, and the
\* store entry is a dict created during the call.
C10_InputsNotMutated ==
  (Handled /\ outcome = "applied") =>
    /\ \A r \in InputObjects : heap[r] = hbefore[r]
    /\ hstates[event.device_id] \notin 1..Len(hbefore)

C10_Witness ==
  /\ Handled
  /\ outcome = "applied"
  /\ hinputs.data # 0
  /\ NestedOf(hbefore, hinputs.existing) # {}
  /\ NestedOf(hbefore, hinputs.data) # {}
  /\ Cardinality(InputObjects) = 4
  /\ Deref(heap, hstates[event.device_id]) # Deref(hbefore, hinputs.existing)
  /\ Len(heap) = Len(hbefore) + 2

\* ------------------------------------------------------------------------
\* The MQTT client (api/mqtt.py): the network thread hands each decoded
\* message to the event loop, one scheduled call per observer
\* ------------------------------------------------------------------------

\* The number of messages the broker publishes in a run
MaxMessages == 2

\* A message whose bytes decode to a JSON object with the given items
ObjectMessage(items) == [kind |-> "object", payload |-> items]

\* A message that cannot be decoded: bytes that are not UTF-8 ("bad_utf8"),
\* text that is not JSON ("bad_json") or JSON that is not an object ("not_object")
BadMessage(kind) == [kind |-> kind, payload |-> EmptyDict]

\* The messages the broker may publish on the event topic
RawMessages ==
  {ObjectMessage([deviceId |-> Scalar("th1"),
                  data |-> Dict([temperature |-> Scalar("21")])]),
   ObjectMessage([deviceId |-> Scalar("th1"),
                  data |-> Dict([state |-> Dict([temperature |-> Scalar("22")])])]),
   ObjectMessage([deviceId |-> Scalar("door1"),
                  data |-> Dict([state |-> Scalar("open")])]),
   ObjectMessage([deviceId |-> Scalar("door1"), data |-> None]),
   ObjectMessage(EmptyDict),
   BadMessage("bad_utf8"), BadMessage("bad_json"), BadMessage("not_object")}

\* Whether msg.payload.decode(), json.loads and DeviceEvent.from_payload all
\* return: from_payload calls payload.get, which only an object has
Decodable(raw) == raw.kind = "object"

\* DeviceEvent.from_payload(payload): the fields the coordinator reads
FromPayload(payload) ==
  [device_id |-> IF "deviceId" \in DOMAIN payload
                   THEN payload["deviceId"].val
                   ELSE "",
   data |-> IF "data" \in DOMAIN payload THEN payload["data"] ELSE Dict(EmptyDict)]

\* The elements of a sequence
Range(s) == {s[i] : i \in 1..Len(s)}

\* A call scheduled on the event loop: the functions it runs, in order, and
\* the event they are given
ScheduledCall(fns, ev) == [fns |-> fns, event |-> ev]

\* A delivery loop that schedules one call running every callback in turn
ScheduledCallsTogether(cbs, ev) ==
  IF cbs = <<>> THEN <<>> ELSE <<ScheduledCall(cbs, ev)>>

\* A delivery loop that skips an event equal to one still waiting on the loop
ScheduledCallsCoalesced(cbs, ev) ==
  IF \E i \in 1..Len(ready) : ready[i].event = ev
    THEN <<>>
    ELSE [i \in 1..Len(cbs) |-> ScheduledCall(<<cbs[i]>>, ev)]

\* for callback in self._callbacks: self._loop.call_soon_threadsafe(callback, event)
ScheduledCalls(cbs, ev) ==
  [i \in 1..Len(cbs) |-> ScheduledCall(<<cbs[i]>>, ev)]

\* The network thread after a message whose decoding raised, were the
\* exception to leave _on_message
BrokerAfterUncaught(raw) ==
  IF Decodable(raw) THEN broker ELSE "dead"

\* The network thread after _on_message: both except clauses log and return
BrokerAfterMessage(raw) == broker

\* Whether a function the loop runs raises: the observer that always does, and
\* _on_device_event in its general branch when event.data is not a mapping
Raises(fn, ev) ==
  \/ fn = "failing"
  \/ fn = "coordinator" /\ Outcome(ev.device_id, ev.data) = "raised"

\* The functions of a scheduled call that are entered: the call ends at the
\* first one that raises
Ran(call) ==
  LET raising == {i \in 1..Len(call.fns) : Raises(call.fns[i], call.event)}
  IN  IF raising = {}
        THEN call.fns
        ELSE SubSeq(call.fns, 1, CHOOSE i \in raising : \A j \in raising : i <= j)

\* _async_setup() up to the wait in YoLinkMQTTClient.connect(): the states are
\* fetched, _connect_mqtt creates the client and subscribes _on_device_event,
\* connect() records the loop and starts the network thread
MqttSetup ==
  /\ StatesFetched
  /\ initial_states' = states'
  /\ callbacks' = <<"coordinator">>
  /\ handles' = <<Handle("coordinator", FALSE)>>
  /\ loop_set' = TRUE
  /\ client' = "started"
  /\ broker' = "connecting"
  /\ connect_call' = "waiting"
  /\ UNCHANGED <<connected, ready, raw_log, delivered, subscribed_at, nonClient,
                 writer, unsubscribed>>

\* _on_connect with a zero reason code, on the network thread: the topic is
\* subscribed and self._connected.set is handed to the loop
OnConnect ==
  /\ broker = "connecting"
  /\ broker' = "subscribed"
  /\ ready' = Append(ready, ScheduledCall(<<"connected.set">>, NoEvent))
  /\ UNCHANGED <<phase, devices, event, outcome, updates, handled, cvars, hvars,
                 nonMqtt, client, loop_set, callbacks, connected, connect_call, raw_log,
                 delivered, subscribed_at, initial_states>>

\* connect(): wait_for(self._connected.wait(), timeout=10.0) returns
ConnectReturns ==
  /\ connect_call = "waiting"
  /\ connected
  /\ connect_call' = "returned"
  /\ UNCHANGED <<phase, devices, event, outcome, updates, handled, cvars, hvars,
                 nonMqtt, client, loop_set, callbacks, connected, broker, ready, raw_log,
                 delivered, subscribed_at, initial_states>>

\* connect(): the wait times out and ConnectionError is raised; the network
\* thread is left running
ConnectTimesOut ==
  /\ connect_call = "waiting"
  /\ ~connected
  /\ connect_call' = "timed_out"
  /\ UNCHANGED <<phase, devices, event, outcome, updates, handled, cvars, hvars,
                 nonMqtt, client, loop_set, callbacks, connected, broker, ready, raw_log,
                 delivered, subscribed_at, initial_states>>

\* subscribe(callback): the callback is appended and an unsubscribe function
\* is returned to the caller
SubscribeCall(o) ==
  /\ client = "started"
  /\ callbacks' = Append(callbacks, o)
  /\ handles' = Append(handles, Handle(o, TRUE))
  /\ subscribed_at' = [subscribed_at EXCEPT ![o] = Len(raw_log)]
  /\ UNCHANGED <<phase, devices, event, outcome, updates, handled, cvars, hvars,
                 nonClient, writer, unsubscribed, client, loop_set, connected,
                 broker, connect_call, ready, raw_log, delivered, initial_states>>

\* subscribe(callback), for a further observer
Subscribe(o) ==
  /\ o \notin Range(callbacks)
  /\ SubscribeCall(o)

\* _on_message with the callbacks called where it runs
HandoffDirect(loop) == "callback"

\* if self._loop: self._loop.call_soon_threadsafe(callback, event)
\* else: callback(event)
Handoff(loop) == IF loop THEN "call_soon_threadsafe" ELSE "callback"

\* The number of entries of self._callbacks that are callback o
Registered(o) == Cardinality({i \in 1..Len(callbacks) : callbacks[i] = o})

\* _on_message(client, userdata, msg), on the network thread: every callback
\* is handed to the loop, or called here when no loop is recorded
OnMessage(raw) ==
  /\ broker = "subscribed"
  /\ Len(raw_log) < MaxMessages
  /\ raw_log' = Append(raw_log, raw)
  /\ broker' = BrokerAfterMessage(raw)
  /\ IF Decodable(raw) /\ Handoff(loop_set) = "callback"
       THEN LET ev == FromPayload(raw.payload)
            IN  /\ delivered' = [o \in Observers |->
                      delivered[o] \o [i \in 1..Registered(o) |-> ev]]
                /\ IF "coordinator" \in Range(callbacks)
                     THEN /\ DeviceEventHandled(ev.device_id, ev.data)
                          /\ writer' = "network"
                     ELSE UNCHANGED <<event, outcome, updates, handled, cvars,
                                      writer>>
                /\ UNCHANGED ready
       ELSE /\ ready' =
                 IF Decodable(raw)
                   THEN ready \o ScheduledCalls(callbacks, FromPayload(raw.payload))
                   ELSE ready
            /\ UNCHANGED <<event, outcome, updates, handled, cvars, writer,
                           delivered>>
  /\ UNCHANGED <<phase, devices, hvars, nonClient, handles, unsubscribed,
                 client, loop_set, callbacks, connected, connect_call,
                 subscribed_at, initial_states>>

\* The event loop runs the call at the head of its queue; an exception the
\* call raises is reported to the loop's exception handler and the loop goes on
RunReady ==
  /\ ready # <<>>
  /\ LET call == Head(ready)
         ran == Range(Ran(call))
     IN  /\ ready' = Tail(ready)
         /\ delivered' = [o \in Observers |->
                            IF o \in ran THEN Append(delivered[o], call.event)
                                         ELSE delivered[o]]
         /\ connected' = (connected \/ "connected.set" \in ran)
         /\ IF "coordinator" \in ran
              THEN /\ DeviceEventHandled(call.event.device_id, call.event.data)
                   /\ writer' = "loop"
              ELSE UNCHANGED <<event, outcome, updates, handled, cvars, writer>>
  /\ UNCHANGED <<phase, devices, hvars, nonClient, handles, unsubscribed,
                 client, loop_set, callbacks, broker, connect_call, raw_log,
                 subscribed_at, initial_states>>

MqttNext ==
  \/ MqttSetup
  \/ OnConnect
  \/ ConnectReturns
  \/ ConnectTimesOut
  \/ \E o \in Observers : Subscribe(o)
  \/ \E raw \in RawMessages : OnMessage(raw)
  \/ RunReady

MqttSpec == Init /\ [][MqttNext]_vars

\* ------------------------------------------------------------------------
\* Properties of the delivery from _on_message to the observers
\* ------------------------------------------------------------------------

\* The events of the messages of `log` that decode, in order
DecodedOf(log) ==
  LET good == SelectSeq(log, Decodable)
  IN  [i \in 1..Len(good) |-> FromPayload(good[i].payload)]

\* The events decoded since observer o subscribed
DecodedSince(o) ==
  DecodedOf(SubSeq(raw_log, subscribed_at[o] + 1, Len(raw_log)))

\* The events scheduled for observer o that the loop has not run yet
PendingFor(o) ==
  LET waiting == SelectSeq(ready, LAMBDA call : o \in Range(call.fns))
  IN  [i \in 1..Len(waiting) |-> waiting[i].event]

\* The store after _on_device_event(ev) on store `store`
StoreAfter(store, ev) ==
  IF Outcome(ev.device_id, ev.data) = "applied"
    THEN Overlay(store,
           Single(ev.device_id,
             Merge(TypeOf(ev.device_id), StateOf(store, ev.device_id), ev.data)))
    ELSE store

\* The store after _on_device_event on each event of `evs` in turn
RECURSIVE StoreAfterAll(_, _)
StoreAfterAll(store, evs) ==
  IF evs = <<>>
    THEN store
    ELSE StoreAfterAll(StoreAfter(store, Head(evs)), Tail(evs))

\* C11: while an observer that raises on every event is subscribed, every
\* other subscribed observer has been invoked with, or still has scheduled,
\* every event decoded since it subscribed, in order; and the store is what
\* the coordinator's own invocations made of it, whatever the failing
\* observer did.
C11_ObserverIsolation ==
  "failing" \in Range(callbacks) =>
    /\ \A o \in Range(callbacks) \ {"failing"} :
         delivered[o] \o PendingFor(o) = DecodedSince(o)
    /\ states = StoreAfterAll(initial_states, delivered["coordinator"])

\* C11 witness: the failing observer subscribed before the recorder, it has
\* raised on two events and the recorder has received both
C11_Witness ==
  /\ callbacks = <<"coordinator", "failing", "recorder">>
  /\ Len(delivered["failing"]) = 2
  /\ Len(delivered["recorder"]) = 2
  /\ delivered["recorder"] = DecodedSince("recorder")
  /\ states # initial_states

\* ------------------------------------------------------------------------
\* Consumers of the coordinator: what async_set_updated_data and get_state
\* hand out, and what writing to it does
\* ------------------------------------------------------------------------

\* The snapshot dict objects a consumer holds: the values of the dict given to
\* async_set_updated_data (self._states.copy()) and what get_state returns for
\* a stored device (the store's own dict)
ReceivedSnapshots ==
  {hdata[d] : d \in DOMAIN hdata} \cup {hstates[d] : d \in DOMAIN hstates}

\* The dict objects a consumer can reach: the snapshots and their nested
\* `state` dicts
ReceivedObjects ==
  ReceivedSnapshots \cup UNION {NestedOf(heap, r) : r \in ReceivedSnapshots}

\* The keys a consumer writes
ConsumerKeys == {"online", "temperature"}

\* A consumer writes a key of a dict object it received
ConsumerWrites(r, key) ==
  /\ written = 0
  /\ r \in ReceivedObjects
  /\ heap' = [heap EXCEPT ![r] = Overlay(@, Single(key, HScalar("tampered")))]
  /\ written' = r
  /\ UNCHANGED <<phase, devices, event, outcome, updates, handled, cvars,
                 hstates, hdata, hbefore, hinputs, nonConsumer>>

\* A consumer deletes an entry of the store copy it received
ConsumerDeletes(device_id) ==
  /\ device_id \in DOMAIN hdata
  /\ hdata' = Restrict(hdata, (DOMAIN hdata) \ {device_id})
  /\ UNCHANGED <<phase, devices, event, outcome, updates, handled, cvars,
                 heap, hstates, hbefore, hinputs, nonConsumer, written>>

ConsumerNext ==
  \/ HeapNext
  \/ \E r \in 1..Len(heap), key \in ConsumerKeys : ConsumerWrites(r, key)
  \/ \E device_id \in DOMAIN DiscoveredDevices : ConsumerDeletes(device_id)

ConsumerSpec == Init /\ [][ConsumerNext]_vars

\* The snapshots the store holds, as values
StoreValue == [d \in DOMAIN hstates |-> Deref(heap, hstates[d])]

\* C12: a write a consumer makes to the store copy or to a snapshot it
\* received, at the top level or in the nested `state` mapping, changes no
\* snapshot the store holds.
C12_ConsumersCannotMutateStore ==
  [][((written' # written) \/ (hdata' # hdata /\ handled' = handled))
       => StoreValue' = StoreValue]_vars

\* C13: the coordinator is invoked with the decoded messages in the order
\* _on_message received them, each exactly once: what it has been invoked with
\* is a prefix of the arrivals, what is still scheduled for it is the rest, and
\* the store is the result of merging that prefix, event by event, in order.
C13_AppliedInArrivalOrder ==
  LET arrived == DecodedOf(raw_log)
      n == Len(delivered["coordinator"])
  IN  /\ n <= Len(arrived)
      /\ delivered["coordinator"] = SubSeq(arrived, 1, n)
      /\ PendingFor("coordinator") = SubSeq(arrived, n + 1, Len(arrived))
      /\ states = StoreAfterAll(initial_states, SubSeq(arrived, 1, n))

\* C13 witness: two different messages for th1 have been merged, and merging
\* them in the other order would have given another store
C13_Witness ==
  /\ Len(delivered["coordinator"]) = 2
  /\ delivered["coordinator"][1].device_id = "th1"
  /\ delivered["coordinator"][2].device_id = "th1"
  /\ delivered["coordinator"][1] # delivered["coordinator"][2]
  /\ states # StoreAfterAll(initial_states,
                            <<delivered["coordinator"][2], delivered["coordinator"][1]>>)

\* The message _on_message was called with in this step, if it was
Received == raw_log'[Len(raw_log')]

\* C14: when _on_message is called with a message that does not decode, no
\* call is scheduled for any observer and none is invoked, the store and the
\* data given to the listeners are unchanged, and the client stays connected
\* and subscribed with the same observers, so that it receives later messages.
C14_UndecodableDropped ==
  [][(Len(raw_log') = Len(raw_log) + 1 /\ ~Decodable(Received)) =>
       /\ ready' = ready
       /\ delivered' = delivered
       /\ states' = states
       /\ coordinator_data' = coordinator_data
       /\ callbacks' = callbacks
       /\ client' = client
       /\ connected' = connected
       /\ broker' = "subscribed"]_vars

\* C14 witness: a message that does not decode was followed by one that does,
\* and the coordinator has merged the second
C14_Witness ==
  /\ Len(raw_log) = 2
  /\ ~Decodable(raw_log[1])
  /\ Decodable(raw_log[2])
  /\ delivered["coordinator"] = <<FromPayload(raw_log[2].payload)>>
  /\ outcome = "applied"
  /\ states # initial_states

\* ------------------------------------------------------------------------
\* create_coordinator: the session, the token, _async_setup and _connect_mqtt,
\* step by step from one await to the next
\* ------------------------------------------------------------------------

\* What an awaited request may do: return ("ok") or raise one of these
RequestOutcomes == {"ok", "AuthenticationError", "ConnectionError", "TimeoutError"}

\* What get_state(device) did: it returned `state`, or it raised
Fetched(state) == [raised |-> FALSE, state |-> state]
FetchRaised == [raised |-> TRUE, state |-> EmptyDict]

\* The outcomes of get_state for a device of the given type
FetchOutcomes(device_type) ==
  {Fetched(state) : state \in FetchedStates(device_type)} \cup {FetchRaised}

\* _async_setup's loop, leaving out the device whose fetch raised
StatesAfterFetchSkipping(store, device_id, result) ==
  IF result.raised THEN store ELSE Overlay(store, Single(device_id, result.state))

\* _async_setup's loop body: the state get_state returned, {} when it raised
StatesAfterFetch(store, device_id, result) ==
  Overlay(store,
          Single(device_id, IF result.raised THEN EmptyDict ELSE result.state))

\* An except clause that raises another exception in place of the caught one
PropagatedWrapped(exc) == "SetupError"

\* The bare `raise` of create_coordinator's except clause
Propagated(exc) == exc

\* The devices of the registry whose state _async_setup has yet to fetch, in
\* the order of its loop
RECURSIVE Unfetched(_)
Unfetched(order) ==
  IF order = <<>> THEN <<>>
  ELSE IF Head(order) \in DOMAIN fetch_result
         THEN Unfetched(Tail(order))
         ELSE <<Head(order)>> \o Unfetched(Tail(order))

\* create_coordinator's `except Exception: await session.close(); raise`, for
\* the exception exc the await at setup_pc raised
SetupFails(exc) ==
  /\ thrown' = [at |-> setup_pc, exc |-> exc]
  /\ session' = "closed"
  /\ raised' = Propagated(exc)
  /\ setup_pc' = "failed"

\* create_coordinator is called: session = aiohttp.ClientSession()
CreateSession ==
  /\ setup_pc = "idle"
  /\ session' = "open"
  /\ setup_pc' = "get_token"
  /\ UNCHANGED <<phase, devices, event, outcome, updates, handled, cvars, hvars,
                 mvars, nonSetup, thrown, raised, fetch_result>>

\* await token_manager.get_token()
GetToken(result) ==
  /\ setup_pc = "get_token"
  /\ IF result = "ok"
       THEN /\ setup_pc' = "get_devices"
            /\ UNCHANGED <<session, thrown, raised>>
       ELSE SetupFails(result)
  /\ UNCHANGED <<phase, devices, event, outcome, updates, handled, cvars, hvars,
                 mvars, nonSetup, fetch_result>>

\* _async_setup: devices = await self._client.get_devices()
GetDevices(result) ==
  /\ setup_pc = "get_devices"
  /\ IF result = "ok"
       THEN /\ devices' = DiscoveredDevices
            /\ setup_pc' = "get_state"
            /\ UNCHANGED <<session, thrown, raised>>
       ELSE /\ SetupFails(result)
            /\ UNCHANGED devices
  /\ UNCHANGED <<phase, event, outcome, updates, handled, cvars, hvars,
                 mvars, nonSetup, fetch_result>>

\* _async_setup: one turn of the loop over the devices
GetState(result) ==
  /\ setup_pc = "get_state"
  /\ LET device_id == Head(Unfetched(DeviceOrder))
     IN  /\ result \in FetchOutcomes(devices[device_id])
         /\ states' = StatesAfterFetch(states, device_id, result)
         /\ fetch_result' = Overlay(fetch_result, Single(device_id, result))
         /\ setup_pc' = IF Len(Unfetched(DeviceOrder)) = 1
                          THEN "mqtt_token" ELSE "get_state"
  /\ UNCHANGED <<phase, devices, event, outcome, updates, handled,
                 coordinator_data, before, repeated, hvars, mvars, nonSetup,
                 session, thrown, raised>>

\* _connect_mqtt: token = await self._token_manager.get_token(); then the
\* client is created, _on_device_event is subscribed and connect() starts the
\* network thread and waits
MqttToken(result) ==
  /\ setup_pc = "mqtt_token"
  /\ IF result = "ok"
       THEN /\ setup_pc' = "connect"
            /\ phase' = "running"
            /\ callbacks' = <<"coordinator">>
            /\ handles' = <<Handle("coordinator", FALSE)>>
            /\ loop_set' = TRUE
            /\ client' = "started"
            /\ broker' = "connecting"
            /\ connect_call' = "waiting"
            /\ UNCHANGED <<session, thrown, raised>>
       ELSE /\ SetupFails(result)
            /\ UNCHANGED <<phase, callbacks, handles, loop_set, client, broker,
                           connect_call>>
  /\ UNCHANGED <<devices, event, outcome, updates, handled, cvars, hvars,
                 connected, ready, raw_log, delivered, subscribed_at,
                 initial_states, kvars, dvars, nvars, tvars, writer,
                 unsubscribed, fetch_result>>

\* _connect_mqtt after `await self._mqtt_client.connect()`: whether connect()
\* returned or raised ConnectionError, which the except clause logs,
\* _connect_mqtt returns, and so do _async_setup and create_coordinator
ConnectHandled ==
  /\ setup_pc = "connect"
  /\ connect_call \in {"returned", "timed_out"}
  /\ setup_pc' = "returned"
  /\ UNCHANGED <<phase, devices, event, outcome, updates, handled, cvars, hvars,
                 mvars, nonSetup, session, thrown, raised, fetch_result>>

\* async_shutdown(): the MQTT client is disconnected and its network thread
\* stopped, then the session is closed
AsyncShutdown ==
  /\ setup_pc = "returned"
  /\ setup_pc' = "shut_down"
  /\ client' = "none"
  /\ broker' = "idle"
  /\ connected' = FALSE
  /\ session' = "closed"
  /\ UNCHANGED <<phase, devices, event, outcome, updates, handled, cvars, hvars,
                 loop_set, callbacks, connect_call, ready, raw_log, delivered,
                 subscribed_at, initial_states, nonSetup, thrown, raised,
                 fetch_result>>

SetupNext ==
  \/ CreateSession
  \/ \E result \in RequestOutcomes : GetToken(result)
  \/ \E result \in RequestOutcomes : GetDevices(result)
  \/ \E result \in UNION {FetchOutcomes(DiscoveredDevices[d]) :
                            d \in DOMAIN DiscoveredDevices} : GetState(result)
  \/ \E result \in RequestOutcomes : MqttToken(result)
  \/ OnConnect
  \/ RunReady
  \/ ConnectReturns
  \/ ConnectTimesOut
  \/ ConnectHandled
  \/ AsyncShutdown

SetupSpec == Init /\ [][SetupNext]_vars

\* ------------------------------------------------------------------------
\* Properties of startup
\* ------------------------------------------------------------------------

\* _async_setup's loop over the devices has ended
FetchesDone == devices # EmptyDict /\ DOMAIN fetch_result = DOMAIN devices

\* C15: once _async_setup's loop has ended, the store has an entry for exactly
\* the devices of the registry, the empty mapping for each device whose fetch
\* raised and the fetched state for every other device, and setup has gone on
\* to the MQTT connection step: no exception left create_coordinator before it.
C15_FetchFailureTolerated ==
  FetchesDone =>
    /\ DOMAIN states = DOMAIN devices
    /\ \A d \in DOMAIN devices :
         states[d] = IF fetch_result[d].raised THEN EmptyDict
                                               ELSE fetch_result[d].state
    /\ setup_pc \in {"mqtt_token", "connect", "returned", "shut_down", "failed"}
    /\ setup_pc = "failed" => thrown.at = "mqtt_token"

\* C15 witness: the fetch raised for the first device and returned a state for
\* the second, and setup is waiting for the MQTT connection
C15_Witness ==
  /\ FetchesDone
  /\ fetch_result["th1"].raised
  /\ ~fetch_result["door1"].raised
  /\ states["door1"] # EmptyDict
  /\ setup_pc = "connect"

\* C16: when connect() timed out, create_coordinator ends by raising
\* ConnectionError with the session closed; and a coordinator that
\* create_coordinator returned has a connected MQTT client.
C16_ConnectTimeoutFailsStartup ==
  /\ (connect_call = "timed_out" /\ setup_pc # "connect") =>
       /\ setup_pc = "failed"
       /\ raised = "ConnectionError"
       /\ session = "closed"
  /\ setup_pc = "returned" => connected

\* C17: whenever an await of create_coordinator's try block raised - get_token,
\* or _async_setup because get_devices or _connect_mqtt's get_token raised -
\* create_coordinator has failed, the session it opened is closed, and the
\* exception its caller gets is the one that was raised.
C17_FailureClosesSessionAndPropagates ==
  /\ thrown.exc # "none" =>
       /\ setup_pc = "failed"
       /\ session = "closed"
       /\ raised = thrown.exc
  /\ setup_pc = "failed" => thrown.exc # "none"

\* C17 witness: device discovery raised AuthenticationError
C17_Witness ==
  /\ thrown = [at |-> "get_devices", exc |-> "AuthenticationError"]
  /\ setup_pc = "failed"
  /\ raised = "AuthenticationError"

\* ------------------------------------------------------------------------
\* Device descriptors: Device.from_api (api/device.py) and the tooling helper
\* normalize_display_type (yolink_tooling_common.py)
\* ------------------------------------------------------------------------

\* appEui strings: the example of the source, the two codes that have a
\* display type of their own, and two that carry those codes at other offsets
AppEuiBases ==
  {<<"d", "8", "8", "b", "4", "c", "7", "8", "0", "4", "0", "0", "0", "0", "0", "0">>,
   <<"d", "8", "8", "b", "4", "c", "7", "7", "0", "6", "0", "0", "0", "0", "0", "0">>,
   <<"d", "8", "8", "b", "4", "c", "8", "0", "0", "4", "0", "0", "0", "0", "0", "0">>,
   <<"7", "7", "0", "6", "0", "0", "8", "0", "0", "4", "7", "7", "0", "6", "0", "0">>,
   <<"8", "0", "0", "4", "0", "0", "7", "7", "0", "6", "8", "0", "0", "4", "0", "0">>}

\* The lengths the appEui strings are cut to
AppEuiLengths == {0, 4, 6, 9, 10, 11, 16}

\* The appEui of a discovery record: missing, null, or a string
AppEuis ==
  {AbsentStr, NoStr}
    \cup {Str(SubSeq(base, 1, n)) : base \in AppEuiBases, n \in AppEuiLengths}

\* The `type` of a discovery record
RawTypes == {"THSensor", "DoorSensor", "TiltSensor", "Lock"}

\* The discovery records get_devices() may return
DiscoveryRecords == [type : RawTypes, appEui : AppEuis]

\* Truthiness of data.get("appEui"): a non-empty string
AppEuiGiven(app_eui) == app_eui.kind = "str" /\ app_eui.chars # <<>>

\* from_api with `len(app_eui) > 10` for its length test
HasModelNumLongerThanTen(app_eui) ==
  AppEuiGiven(app_eui) /\ Len(app_eui.chars) > 10

\* from_api: `if app_eui := data.get("appEui")` and `if len(app_eui) >= 10`
HasModelNum(app_eui) ==
  AppEuiGiven(app_eui) /\ Len(app_eui.chars) >= 10

\* app_eui[6:10]
ModelNum(app_eui) == SubSeq(app_eui.chars, 7, 10)

\* f"YS{model_num}-UC"
ModelOf(model_num) == Str(<<"Y", "S">> \o model_num \o <<"-", "U", "C">>)

\* The display type from_api gives a model number, "" when it has none
DisplayTypeOfModel(model_num) ==
  IF model_num = <<"7", "7", "0", "6">> THEN "TiltSensor"
  ELSE IF model_num = <<"8", "0", "0", "4">> THEN "TempSensor"
  ELSE ""

\* Device.from_api(data): the fields it derives
DeviceFromApi(data) ==
  LET derived == HasModelNum(data.appEui)
      override == IF derived THEN DisplayTypeOfModel(ModelNum(data.appEui)) ELSE ""
  IN  [made |-> TRUE,
       device_type |-> data.type,
       display_type |-> IF override # "" THEN override ELSE data.type,
       model |-> IF derived THEN ModelOf(ModelNum(data.appEui)) ELSE NoStr]

\* model_num_from_app_eui(app_eui): the model number, <<>> for None
ModelNumFromAppEui(app_eui) ==
  IF AppEuiGiven(app_eui) /\ Len(app_eui.chars) >= 10
    THEN SubSeq(app_eui.chars, 7, 10)
    ELSE <<>>

\* normalize_display_type(raw_type, app_eui)
NormalizeDisplayType(raw_type, app_eui) ==
  LET model_num == ModelNumFromAppEui(app_eui)
  IN  IF model_num = <<"7", "7", "0", "6">> THEN "TiltSensor"
      ELSE IF model_num = <<"8", "0", "0", "4">> THEN "TempSensor"
      ELSE raw_type

\* A discovery record is about to be given to the two functions
DeviceInit ==
  /\ CoordinatorInit
  /\ NormalizerIdle
  /\ SensorIdle
  /\ record \in DiscoveryRecords
  /\ descriptor = [made |-> FALSE, device_type |-> "", display_type |-> "",
                   model |-> NoStr]
  /\ tool_display_type = ""

\* Device.from_api(record)
FromApi ==
  /\ ~descriptor.made
  /\ descriptor' = DeviceFromApi(record)
  /\ UNCHANGED <<phase, devices, event, outcome, updates, handled, cvars, hvars,
                 mvars, kvars, svars, nvars, tvars, lvars, record, tool_display_type>>

\* normalize_display_type(record["type"], record.get("appEui"))
ToolNormalizes ==
  /\ tool_display_type = ""
  /\ tool_display_type' = NormalizeDisplayType(record.type, record.appEui)
  /\ UNCHANGED <<phase, devices, event, outcome, updates, handled, cvars, hvars,
                 mvars, kvars, svars, nvars, tvars, lvars, record, descriptor>>

DeviceNext ==
  \/ FromApi
  \/ ToolNormalizes

DeviceSpec == DeviceInit /\ [][DeviceNext]_vars

\* The appEui of the record has a model code: it is a string of at least 10
\* characters
RecordHasCode == record.appEui.kind = "str" /\ Len(record.appEui.chars) >= 10

\* The 4 characters at offsets 6..9 of the record's appEui
RecordCode == SubSeq(record.appEui.chars, 7, 10)

\* C18: the descriptor from_api makes of a discovery record has model null
\* unless appEui has at least 10 characters, and then "YS" + the characters at
\* offsets 6..9 + "-UC"; its display type is TiltSensor for code 7706,
\* TempSensor for code 8004 and the record's type otherwise; its device type is
\* the record's type; and normalize_display_type returns the same display type.
C18_DescriptorDerivation ==
  /\ descriptor.made =>
       /\ descriptor.model =
            IF RecordHasCode
              THEN Str(<<"Y", "S">> \o RecordCode \o <<"-", "U", "C">>)
              ELSE NoStr
       /\ descriptor.display_type =
            IF RecordHasCode /\ RecordCode = <<"7", "7", "0", "6">> THEN "TiltSensor"
            ELSE IF RecordHasCode /\ RecordCode = <<"8", "0", "0", "4">> THEN "TempSensor"
            ELSE record.type
       /\ descriptor.device_type = record.type
  /\ (descriptor.made /\ tool_display_type # "") =>
       tool_display_type = descriptor.display_type

\* C18 witness: an appEui of exactly 10 characters with code 7706 on a record
\* of another type, through both functions
C18_Witness ==
  /\ descriptor.made
  /\ Len(record.appEui.chars) = 10
  /\ record.type = "THSensor"
  /\ descriptor.model = Str(<<"Y", "S", "7", "7", "0", "6", "-", "U", "C">>)
  /\ descriptor.display_type = "TiltSensor"
  /\ tool_display_type = "TiltSensor"

\* ------------------------------------------------------------------------
\* Payload normalization: normalize_event_payload (yolink_tooling_common.py)
\* and DeviceEvent.from_payload (api/mqtt.py)
\* ------------------------------------------------------------------------

\* The payloads given to the two functions: any of the keys deviceId, data,
\* params, state, time and online. Scalar("0") stands for the number 0,
\* Scalar("false") for False and Scalar("") for the empty string.
Payloads ==
  {MakeDict([deviceId |-> deviceId, data |-> data, params |-> params,
             state |-> state, time |-> time, online |-> online]) :
     deviceId \in {Absent, Scalar("th1")},
     data \in {Absent, None, Scalar("open"),
               Dict([temperature |-> Scalar("21")]),
               Dict([reportAt |-> Scalar("5"), online |-> Scalar("false")])},
     params \in {Absent, Scalar("x"), Dict(EmptyDict),
                 Dict([data |-> None]),
                 Dict([data |-> Scalar("closed")]),
                 Dict([data |-> Dict([state |-> Scalar("alert")])]),
                 Dict([battery |-> Scalar("3")])},
     state \in {Absent, None, Scalar("open")},
     time \in {Absent, None, Scalar("0"), Scalar("1700")},
     online \in {Absent, Scalar("false"), Scalar("true")}}

\* bool(v)
Truthy(v) ==
  /\ v # None
  /\ ~(v.kind = "scalar" /\ v.val \in {"", "0", "false"})
  /\ ~(v.kind = "dict" /\ v.items = EmptyDict)

\* raw_data after the two fallbacks of normalize_event_payload
RawData(p) ==
  LET top == Get(p, "data")
      params == Get(p, "params")
      fromParams ==
        IF top = None /\ IsDict(params)
          THEN IF "data" \in DOMAIN params.items THEN params.items["data"]
                                                 ELSE params
          ELSE top
  IN  IF fromParams = None /\ "state" \in DOMAIN p
        THEN Dict(Single("state", Get(p, "state")))
        ELSE fromParams

\* event_data before the liveness keys are copied: dict(raw_data),
\* {"state": raw_data}, or {}
EventDataOf(raw_data) ==
  IF IsDict(raw_data) THEN raw_data.items
  ELSE IF raw_data # None THEN Single("state", raw_data)
  ELSE EmptyDict

\* A test for the key `time` in place of the truth value of its value
HasTimeKey(p) == "time" \in DOMAIN p

\* payload.get("time") as a condition
HasTime(p) == Truthy(Get(p, "time"))

\* The two copies at the end of normalize_event_payload
WithLiveness(event_data, p) ==
  LET timed ==
        IF "reportAt" \notin DOMAIN event_data /\ HasTime(p)
          THEN Overlay(event_data, Single("reportAt", Get(p, "time")))
          ELSE event_data
  IN  IF "online" \notin DOMAIN timed /\ "online" \in DOMAIN p
        THEN Overlay(timed, Single("online", Get(p, "online")))
        ELSE timed

\* payload.get("deviceId", "")
DeviceIdOf(p) == IF "deviceId" \in DOMAIN p THEN p["deviceId"].val ELSE ""

\* normalize_event_payload(payload)
NormalizeEventPayload(p) ==
  [done |-> TRUE,
   device_id |-> DeviceIdOf(p),
   selected |-> EventDataOf(RawData(p)),
   event_data |-> WithLiveness(EventDataOf(RawData(p)), p)]

\* A payload is about to be given to the two functions
NormalizerInit ==
  /\ CoordinatorInit
  /\ DeviceIdle
  /\ SensorIdle
  /\ given_payload \in Payloads
  /\ normalized = NotNormalized
  /\ device_event = NotDecoded

\* normalize_event_payload(given_payload)
Normalize ==
  /\ ~normalized.done
  /\ normalized' = NormalizeEventPayload(given_payload)
  /\ UNCHANGED <<phase, devices, event, outcome, updates, handled, cvars, hvars,
                 mvars, kvars, svars, dvars, tvars, lvars, given_payload, device_event>>

\* DeviceEvent.from_payload(given_payload)
Decode ==
  /\ ~device_event.done
  /\ device_event' = [done |-> TRUE,
                      device_id |-> FromPayload(given_payload).device_id,
                      data |-> FromPayload(given_payload).data]
  /\ UNCHANGED <<phase, devices, event, outcome, updates, handled, cvars, hvars,
                 mvars, kvars, svars, dvars, tvars, lvars, given_payload, normalized>>

NormalizerNext ==
  \/ Normalize
  \/ Decode

NormalizerSpec == NormalizerInit /\ [][NormalizerNext]_vars

\* The data the four rules select from a payload, the first that matches
RuleSelected(p) ==
  IF "data" \in DOMAIN p /\ p["data"] # None
    THEN p["data"]
  ELSE IF IsDict(Get(p, "params"))
    THEN IF "data" \in DOMAIN p["params"].items
           THEN p["params"].items["data"]
           ELSE p["params"]
  ELSE IF "state" \in DOMAIN p
    THEN Dict(Single("state", p["state"]))
  ELSE Dict(EmptyDict)

\* C19: the data a normalizer selects from a payload is what the first
\* matching rule gives: the top-level data when present and not null, else for
\* a params mapping its data when present and otherwise params itself, else
\* {state: value} for a top-level state, else the empty mapping; and the device
\* id is the top-level deviceId, "" when missing. Stated of both normalizers:
\* normalize_event_payload and DeviceEvent.from_payload.
C19_FirstMatchingRule ==
  /\ normalized.done =>
       /\ Dict(normalized.selected) = RuleSelected(given_payload)
       /\ normalized.device_id = DeviceIdOf(given_payload)
  /\ device_event.done =>
       /\ device_event.data = RuleSelected(given_payload)
       /\ device_event.device_id = DeviceIdOf(given_payload)

\* The selected data mapping has key k, with value v
SelectedHas(k) == k \in DOMAIN normalized.selected
ResultHas(k) == k \in DOMAIN normalized.event_data
ResultIs(k, v) == ResultHas(k) /\ normalized.event_data[k] = v

\* C20 as stated: after the selection, a data mapping without reportAt gets
\* the payload's `time` as reportAt whenever the payload has the key `time`;
\* one without online gets the payload's online whenever the payload has it;
\* and a reportAt or online of the data mapping is kept.
C20_LivenessCopiedWhenKeyPresent ==
  normalized.done =>
    /\ \A k \in DOMAIN normalized.selected :
         ResultIs(k, normalized.selected[k])
    /\ (~SelectedHas("reportAt") /\ "time" \in DOMAIN given_payload) =>
         ResultIs("reportAt", given_payload["time"])
    /\ (~SelectedHas("online") /\ "online" \in DOMAIN given_payload) =>
         ResultIs("online", given_payload["online"])

\* C20: after the selection, the result is the data mapping with at most the
\* keys reportAt and online added, every key of the data mapping keeping its
\* value; a data mapping without reportAt gets the payload's `time` as reportAt
\* exactly when that value is truthy (not null, 0, False or empty); one
\* without online gets the payload's online exactly when the payload has the
\* key, whatever its value.
C20_LivenessCopiedWhenTimeTruthy ==
  normalized.done =>
    /\ \A k \in DOMAIN normalized.selected :
         ResultIs(k, normalized.selected[k])
    /\ DOMAIN normalized.event_data \subseteq
         (DOMAIN normalized.selected) \cup {"reportAt", "online"}
    /\ ~SelectedHas("reportAt") =>
         IF Truthy(Get(given_payload, "time"))
           THEN ResultIs("reportAt", given_payload["time"])
           ELSE ~ResultHas("reportAt")
    /\ ~SelectedHas("online") =>
         IF "online" \in DOMAIN given_payload
           THEN ResultIs("online", given_payload["online"])
           ELSE ~ResultHas("online")

\* C20 witness: a payload whose `time` is 0 and whose online is False, with a
\* data mapping that has neither key: online is copied, reportAt is not
C20_Witness ==
  /\ normalized.done
  /\ Get(given_payload, "time") = Scalar("0")
  /\ Get(given_payload, "online") = Scalar("false")
  /\ normalized.selected = [temperature |-> Scalar("21")]
  /\ normalized.event_data = [temperature |-> Scalar("21"), online |-> Scalar("false")]

\* ------------------------------------------------------------------------
\* Malformed payloads through from_payload and _on_device_event
\* ------------------------------------------------------------------------

\* C21: for every payload that decodes to a JSON object, whatever its `data`
\* is and whether or not it has deviceId and data, building the event with
\* from_payload and applying it with _on_device_event completes without
\* raising, for a THSensor and for every other device alike.
C21_NoErrorOnMalformedInput ==
  \A i \in 1..Len(delivered["coordinator"]) :
    LET ev == delivered["coordinator"][i]
    IN  Outcome(ev.device_id, ev.data) # "raised"

\* ------------------------------------------------------------------------
\* The sensor entities (sensor.py, binary_sensor.py, entity.py): what they
\* show for one snapshot
\* ------------------------------------------------------------------------

\* A battery level or a limit that is missing or null, or one of these numbers
ValuesOf(numbers) == {NoVal} \cup {NumVal(n) : n \in numbers}

\* The battery levels a device reports
BatteryLevels == 0..4

\* The limits a THSensor reports: around the bounds of both ranges
LimitValues == {-101, -100, -99, -1, 0, 1, 50, 99, 100, 101}

\* The snapshots a battery entity may read, with what YoLocalEntity.available
\* looks at: `state` missing, a scalar or a mapping; battery in the nested
\* state and at top level; online; reportAt recent, older than 12 hours or not
\* a date
BatteryInputs ==
  {[case |-> "battery", coordinator_ok |-> ok, online |-> online,
    report |-> report, state_kind |-> "dict", nested_battery |-> nested,
    top_battery |-> top] :
     ok \in BOOLEAN, online \in {"absent", "true", "false"},
     report \in {"absent", "recent", "stale", "unparseable"},
     nested \in ValuesOf(BatteryLevels), top \in ValuesOf(BatteryLevels)}
  \cup
  {[case |-> "battery", coordinator_ok |-> ok, online |-> online,
    report |-> report, state_kind |-> kind, nested_battery |-> NoVal,
    top_battery |-> top] :
     ok \in BOOLEAN, online \in {"absent", "true", "false"},
     report \in {"absent", "recent", "stale", "unparseable"},
     kind \in {"absent", "scalar"}, top \in ValuesOf(BatteryLevels)}

\* A tempLimit / humidityLimit entry: missing, not a mapping, or a mapping
\* whose entry for the entity's limit type is `value`
Limits(kind, value) == [kind |-> kind, value |-> value]

\* The limit entries a snapshot may hold
LimitEntries ==
  {Limits("absent", NoVal), Limits("scalar", NoVal)}
    \cup {Limits("dict", v) : v \in ValuesOf(LimitValues)}

\* The snapshots a limit entity may read, and its measurement type
LimitInputs ==
  {[case |-> "limit", measurement |-> m, state_kind |-> "dict",
    nested_limits |-> nested, top_limits |-> top] :
     m \in {"temperature", "humidity"},
     nested \in LimitEntries, top \in LimitEntries}
  \cup
  {[case |-> "limit", measurement |-> m, state_kind |-> kind,
    nested_limits |-> Limits("absent", NoVal), top_limits |-> top] :
     m \in {"temperature", "humidity"}, kind \in {"absent", "scalar"},
     top \in LimitEntries}

\* YoLocalEntity.available
Available(in) ==
  /\ in.coordinator_ok
  /\ in.online # "false"
  /\ in.report # "stale"

\* min(a, b)
Min(a, b) == IF a <= b THEN a ELSE b

\* A conversion for levels 0..5
BatteryPercentOfFive(level) == Min(level * 20, 100)

\* min(level * 25, 100)
BatteryPercent(level) == Min(level * 25, 100)

\* isinstance(self.device_state.get("state", {}), dict)
StateIsDict(in) == in.state_kind \in {"absent", "dict"}

\* YoLocalBatterySensor.native_value
BatteryNativeValue(in) ==
  LET level == IF StateIsDict(in) THEN in.nested_battery ELSE in.top_battery
  IN  IF ~Available(in) THEN NumVal(0)
      ELSE IF level = NoVal THEN NoVal
      ELSE NumVal(BatteryPercent(level.n))

\* YoLocalBinarySensor.extra_state_attributes: battery_level, NoVal when the
\* attribute is not set
BinaryBatteryLevel(in) ==
  IF StateIsDict(in) /\ in.nested_battery # NoVal
    THEN NumVal(BatteryPercent(in.nested_battery.n))
    ELSE NoVal

\* A sentinel test that takes the bounds for sentinels
IsSentinelAtBounds(measurement, value) ==
  IF measurement = "temperature"
    THEN value <= -100 \/ value >= 100
    ELSE value <= 0 \/ value >= 100

\* YoLocalTHLimitSensor.native_value: the test for a disabled limit
IsSentinel(measurement, value) ==
  IF measurement = "temperature"
    THEN value < -100 \/ value > 100
    ELSE value < 0 \/ value > 100

\* YoLocalTHLimitSensor.native_value: `limits`
LimitsRead(in) ==
  LET fromState ==
        IF in.state_kind = "dict" /\ in.nested_limits.kind # "absent"
          THEN in.nested_limits
          ELSE Limits("dict", NoVal)
  IN  IF fromState.kind = "dict" THEN fromState
      ELSE IF in.top_limits.kind = "absent" THEN Limits("dict", NoVal)
      ELSE in.top_limits

\* YoLocalTHLimitSensor.native_value
LimitNativeValue(in) ==
  LET limits == LimitsRead(in)
  IN  IF limits.kind # "dict" THEN NoVal
      ELSE IF limits.value # NoVal /\ IsSentinel(in.measurement, limits.value.n)
        THEN NoVal
      ELSE limits.value

\* A snapshot is about to be read by the entities
SensorInit ==
  /\ CoordinatorInit
  /\ DeviceIdle
  /\ NormalizerIdle
  /\ sensor_in \in BatteryInputs \cup LimitInputs
  /\ sensor_out = [read |-> {}, battery |-> NoVal, battery_level |-> NoVal,
                   limit |-> NoVal]

\* Home Assistant reads YoLocalBatterySensor.native_value
ReadBattery ==
  /\ sensor_in.case = "battery"
  /\ "battery" \notin sensor_out.read
  /\ sensor_out' = [sensor_out EXCEPT !.read = @ \cup {"battery"},
                                      !.battery = BatteryNativeValue(sensor_in)]
  /\ UNCHANGED <<phase, devices, event, outcome, updates, handled, cvars, hvars,
                 mvars, kvars, svars, dvars, nvars, lvars, sensor_in>>

\* Home Assistant reads YoLocalBinarySensor.extra_state_attributes
ReadBinaryAttributes ==
  /\ sensor_in.case = "battery"
  /\ "battery_level" \notin sensor_out.read
  /\ sensor_out' = [sensor_out EXCEPT !.read = @ \cup {"battery_level"},
                                      !.battery_level = BinaryBatteryLevel(sensor_in)]
  /\ UNCHANGED <<phase, devices, event, outcome, updates, handled, cvars, hvars,
                 mvars, kvars, svars, dvars, nvars, lvars, sensor_in>>

\* Home Assistant reads YoLocalTHLimitSensor.native_value
ReadLimit ==
  /\ sensor_in.case = "limit"
  /\ "limit" \notin sensor_out.read
  /\ sensor_out' = [sensor_out EXCEPT !.read = @ \cup {"limit"},
                                      !.limit = LimitNativeValue(sensor_in)]
  /\ UNCHANGED <<phase, devices, event, outcome, updates, handled, cvars, hvars,
                 mvars, kvars, svars, dvars, nvars, lvars, sensor_in>>

SensorNext ==
  \/ ReadBattery
  \/ ReadBinaryAttributes
  \/ ReadLimit

SensorSpec == SensorInit /\ [][SensorNext]_vars

\* ------------------------------------------------------------------------
\* Properties of the sensor entities
\* ------------------------------------------------------------------------

\* The snapshot's nested state reports a battery level
BatteryReported ==
  /\ sensor_in.case = "battery"
  /\ sensor_in.state_kind = "dict"
  /\ sensor_in.nested_battery # NoVal

\* min(level * 25, 100) for the reported level
ReportedPercent == NumVal(Min(sensor_in.nested_battery.n * 25, 100))

\* C22 as stated: for every battery level 0..4 the snapshot reports, the
\* battery sensor's value and the binary sensor's battery_level attribute are
\* min(level * 25, 100), whatever the rest of the snapshot is.
C22_BatteryPercentAlways ==
  BatteryReported =>
    /\ "battery" \in sensor_out.read => sensor_out.battery = ReportedPercent
    /\ "battery_level" \in sensor_out.read =>
         sensor_out.battery_level = ReportedPercent

\* The device is available: the coordinator's last update succeeded, the
\* snapshot's online is not false and its reportAt is not older than 12 hours
DeviceAvailable ==
  /\ sensor_in.coordinator_ok
  /\ sensor_in.online # "false"
  /\ sensor_in.report # "stale"

\* C22: for every battery level 0..4 reported in the snapshot's nested state,
\* the binary sensor's battery_level attribute is min(level * 25, 100)
\* whatever the rest of the snapshot is, and the battery sensor's value is
\* min(level * 25, 100) while the device is available and 0 while it is not.
C22_BatteryPercentWhileAvailable ==
  BatteryReported =>
    /\ "battery" \in sensor_out.read =>
         sensor_out.battery = IF DeviceAvailable THEN ReportedPercent
                                                 ELSE NumVal(0)
    /\ "battery_level" \in sensor_out.read =>
         sensor_out.battery_level = ReportedPercent

\* C22 witness: level 3 on a device that is offline: the attribute is 75, the
\* battery sensor shows 0
C22_Witness ==
  /\ BatteryReported
  /\ sensor_in.nested_battery = NumVal(3)
  /\ sensor_in.online = "false"
  /\ sensor_out.read = {"battery", "battery_level"}
  /\ sensor_out.battery = NumVal(0)
  /\ sensor_out.battery_level = NumVal(75)

\* The limit the entity reads: the entry of the nested state's limit mapping,
\* or of the top-level limit mapping when the nested state's entry is not a
\* mapping
ThresholdRead ==
  IF sensor_in.state_kind = "dict" /\ sensor_in.nested_limits.kind = "dict"
    THEN sensor_in.nested_limits.value
  ELSE IF sensor_in.state_kind = "dict" /\ sensor_in.nested_limits.kind = "scalar"
         /\ sensor_in.top_limits.kind = "dict"
    THEN sensor_in.top_limits.value
  ELSE NoVal

\* The limit is inside the closed range of its measurement
InRange(measurement, n) ==
  IF measurement = "temperature" THEN -100 <= n /\ n <= 100
                                 ELSE 0 <= n /\ n <= 100

\* C23: the limit sensor's value is None when the limit it reads is outside
\* [-100, 100] for temperature or [0, 100] for humidity, and the limit itself
\* when it is inside the closed range, bounds included (and None when the
\* snapshot has no limit to read).
C23_SentinelLimitsAbsent ==
  (sensor_in.case = "limit" /\ "limit" \in sensor_out.read) =>
    sensor_out.limit =
      IF ThresholdRead # NoVal /\ InRange(sensor_in.measurement, ThresholdRead.n)
        THEN ThresholdRead
        ELSE NoVal

\* C23 witness: a temperature limit of exactly -100 is returned
C23_Witness ==
  /\ sensor_in.case = "limit"
  /\ sensor_in.measurement = "temperature"
  /\ ThresholdRead = NumVal(-100)
  /\ "limit" \in sensor_out.read
  /\ sensor_out.limit = NumVal(-100)

\* ------------------------------------------------------------------------
\* Properties of the merge across events
\* ------------------------------------------------------------------------

\* C24: for a THSensor, a nested state field temperature, humidity, mode or
\* version that holds a non-null value before an event still holds a non-null
\* value after it, whether the event reports the field flat or inside a
\* nested `state` mapping.
C24_KnownNestedFieldStaysKnown ==
  THSensorMerged =>
    \A k \in NullSkipKeys :
      ExistingNestedKnown(k) =>
        /\ IsDict(Get(Resulting, "state"))
        /\ k \in DOMAIN Resulting["state"].items
        /\ Resulting["state"].items[k] # None

\* The top-level keys of the event's data that the THSensor branch folds or
\* skips: every key but state, online and reportAt
FlatKeys == (DOMAIN EventItems) \ UnfoldedKeys

\* C25 as stated: for a THSensor, every top-level key of the incoming data
\* other than state, online and reportAt is in the resulting nested `state`
\* mapping, and is not a top-level key the event added to the snapshot.
C25_FlatKeysMovedIntoNested ==
  THSensorMerged =>
    \A k \in FlatKeys :
      /\ IsDict(Get(Resulting, "state"))
      /\ k \in DOMAIN Resulting["state"].items
      /\ k \notin DOMAIN Existing => k \notin DOMAIN Resulting

\* The event reports a null for k that the THSensor branch skips
SkippedNull(k) == k \in NullSkipKeys /\ EventItems[k] = None

\* C25, amended: for a THSensor, every top-level key of the incoming data
\* other than state, online and reportAt is a top-level key of the resulting
\* snapshot with the incoming value, and, unless it is a null for temperature,
\* humidity, mode or version, is also in the resulting nested `state` mapping
\* with the incoming value.
C25_FlatKeysCopiedIntoNested ==
  THSensorMerged =>
    \A k \in FlatKeys :
      /\ k \in DOMAIN Resulting
      /\ Resulting[k] = EventItems[k]
      /\ ~SkippedNull(k) => ResultingNestedIs(k, EventItems[k])

\* C25 witness: a flat temperature arrives for a snapshot without a top-level
\* temperature, and ends both at top level and in the nested state
C25_Witness ==
  /\ THSensorMerged
  /\ "temperature" \in FlatKeys
  /\ "temperature" \notin DOMAIN Existing
  /\ Resulting["temperature"] = Scalar("21")
  /\ ResultingNestedIs("temperature", Scalar("21"))

\* C28: for every existing snapshot and every event data mapping the general
\* branch merges, merge_state(existing, data) is the snapshot the general
\* branch stores.
C28_MergeStateMatchesGeneralBranch ==
  GeneralMerged => MergeState(Existing, event.data.items) = Resulting

\* The keys of the nested `state` mapping of a snapshot, when it is a mapping
NestedKeys(snapshot) ==
  IF IsDict(Get(snapshot, "state")) THEN DOMAIN snapshot["state"].items ELSE {}

\* C29: whatever the device family, an event removes no top-level key of any
\* snapshot, and removes no key of a nested `state` mapping that is still a
\* mapping after the event.
C29_SnapshotsNeverShrink ==
  Handled =>
    \A d \in DOMAIN before :
      /\ d \in DOMAIN states
      /\ DOMAIN before[d] \subseteq DOMAIN states[d]
      /\ (IsDict(Get(before[d], "state")) /\ IsDict(Get(states[d], "state")))
           => NestedKeys(before[d]) \subseteq NestedKeys(states[d])

\* C29 witness: an event without `online` and with a nested state of its own
\* is applied to a snapshot that has `online` and a nested version
C29_Witness ==
  /\ Handled
  /\ KnownDevice
  /\ outcome = "applied"
  /\ "online" \in DOMAIN Existing
  /\ "online" \notin DOMAIN EventItems
  /\ IsDict(Get(EventItems, "state"))
  /\ "version" \in NestedKeys(Existing)
  /\ "version" \notin NestedKeys(EventItems)
  /\ "version" \in NestedKeys(Resulting)
  /\ Resulting["online"] = Existing["online"]

\* ------------------------------------------------------------------------
\* The life of the MQTT client: create_coordinator brings it up, observers
\* subscribe and unsubscribe, messages arrive, async_shutdown tears it down
\* ------------------------------------------------------------------------

\* The number of subscribe calls in a run, the coordinator's included
MaxHandles == 2

\* The number of times one unsubscribe function is called in a run
MaxHandleCalls == 2

\* The messages the broker publishes in a run with unsubscriptions
LifecycleMessages ==
  {ObjectMessage([deviceId |-> Scalar("th1"),
                  data |-> Dict([temperature |-> Scalar("21")])]),
   ObjectMessage([deviceId |-> Scalar("door1"),
                  data |-> Dict([state |-> Scalar("open")])])}

\* subscribe(callback) by an observer, which may already be subscribed
Resubscribe(o) ==
  /\ Len(handles) < MaxHandles
  /\ SubscribeCall(o)

\* list.remove(x) removes the first entry equal to x: its index
FirstIndex(list, x) ==
  CHOOSE i \in 1..Len(list) :
    list[i] = x /\ \A j \in 1..(i - 1) : list[j] # x

\* The sequence without its i-th entry
RemoveAt(list, i) == SubSeq(list, 1, i - 1) \o SubSeq(list, i + 1, Len(list))

\* The unsubscribe function of subscribe call h is called:
\* self._callbacks.remove(callback), which raises ValueError when no entry
\* equals the callback
Unsubscribe(h) ==
  /\ h \in 1..Len(handles)
  /\ handles[h].held
  /\ handles[h].calls < MaxHandleCalls
  /\ handles' = [handles EXCEPT ![h].calls = @ + 1]
  /\ IF handles[h].callback \in Range(callbacks)
       THEN /\ callbacks' =
                 RemoveAt(callbacks, FirstIndex(callbacks, handles[h].callback))
            /\ unsubscribed' = [handle |-> h, result |-> "removed"]
       ELSE /\ unsubscribed' = [handle |-> h, result |-> "raised"]
            /\ UNCHANGED callbacks
  /\ UNCHANGED <<phase, devices, event, outcome, updates, handled, cvars, hvars,
                 nonClient, writer, client, loop_set, connected, broker,
                 connect_call, ready, raw_log, delivered, subscribed_at,
                 initial_states>>

\* create_coordinator with every request answered, then the client's life
LifecycleNext ==
  \/ CreateSession
  \/ GetToken("ok")
  \/ GetDevices("ok")
  \/ \E d \in DOMAIN DiscoveredDevices :
       \E state \in FetchedStates(DiscoveredDevices[d]) : GetState(Fetched(state))
  \/ MqttToken("ok")
  \/ OnConnect
  \/ ConnectReturns
  \/ ConnectTimesOut
  \/ ConnectHandled
  \/ \E raw \in LifecycleMessages : OnMessage(raw)
  \/ RunReady
  \/ Resubscribe("recorder")
  \/ \E h \in 1..MaxHandles : Unsubscribe(h)
  \/ AsyncShutdown

LifecycleSpec == Init /\ [][LifecycleNext]_vars

\* ------------------------------------------------------------------------
\* Properties of the life of the MQTT client
\* ------------------------------------------------------------------------

\* C26: _on_device_event, the only writer of the store after setup, never
\* runs on the network thread: a loop is recorded whenever the network thread
\* exists, so every message is handed to the loop with call_soon_threadsafe.
C26_StoreWrittenOnLoopOnly ==
  /\ writer # "network"
  /\ broker # "idle" => loop_set

\* C26 witness: a message has arrived after connect() and the loop has run
\* _on_device_event for it
C26_Witness ==
  /\ Len(raw_log) > 0
  /\ writer = "loop"
  /\ outcome = "applied"
  /\ connect_call = "returned"

\* The subscribe calls for callback o whose unsubscribe function has not
\* been called
Subscriptions(o) ==
  {h \in 1..Len(handles) : handles[h].callback = o /\ handles[h].calls = 0}

\* C27: no call of an unsubscribe function raises, and every observer is
\* registered once for each of its subscribe calls whose unsubscribe function
\* has not been called: a call removes the registration of its own subscribe
\* call and no other, so the observer of an uncalled function keeps being
\* invoked for every message.
C27_StableUnsubscribeHandle ==
  /\ unsubscribed.result # "raised"
  /\ \A o \in Observers : Registered(o) = Cardinality(Subscriptions(o))

\* C30: once async_shutdown has completed, no step changes a snapshot of the
\* store or calls async_set_updated_data.
C30_QuietAfterShutdown ==
  [][setup_pc = "shut_down" =>
       /\ states' = states
       /\ ~(handled' # handled /\ updates' > 0)]_vars

====
